---- MODULE Spec2Model ----
(***************************************************************************)
(* A model of clorm (src/clorm/base.py): typed records mapped onto rows of *)
(* a SQLite table, with a weak identity cache, write-through field         *)
(* accessors and a condition/query builder lowered to parameterized SQL.   *)
(*                                                                         *)
(* The record type modelled is the Taxon of the test suite:                *)
(*     name    = Field[str]()                                              *)
(*     extinct = Field[bool]("is_extinct", default=False)                  *)
(*     parent  = Field[Self | None](related_name="children")               *)
(* over a table taxon(id INTEGER PRIMARY KEY, name, is_extinct, parent),   *)
(* whose name column is declared NOT NULL in one schema of the tests and   *)
(* unconstrained in the other.                                             *)
(***************************************************************************)
EXTENDS Integers, Sequences, FiniteSets, TLC

VARIABLES
    store,      \* the table: key -> row (column -> SQLite value) or NoRow
    notNull,    \* the columns the table's DDL declares NOT NULL
    heap,       \* Python objects: object id -> _clorm_data (the shadow) or NoObj
    cache,      \* Taxon._clorm_instance_cache: key -> object id, 0 when absent
    held,       \* the objects the caller holds a strong reference to
    cursor,     \* per iterator, the result stream of its iteration
    query,      \* the Query objects the application has built, by identity
    schema,     \* the registry and what registration has resolved and installed
    ret,        \* the last operation: its name, arguments and outcome
    ops,        \* number of operations performed so far
    lastSet,    \* history: per key and field, the value of the last successful set
    iterlog     \* history: per iterator, what its iteration has yielded

vars == <<store, notNull, heap, cache, held, cursor, query, schema, ret, ops,
          lastSet, iterlog>>

----------------------------------------------------------------------------
(* Bounds of the model *)

MaxKey == 2         \* rows carry keys 1..MaxKey in the lifecycle and the codec
MaxRows == 3        \* rows carry keys 1..MaxRows where queries are run
MaxOps == 3         \* operations per behaviour
MaxLimit == 2       \* largest LIMIT operand tried

Keys == 1..MaxKey
QKeys == 1..MaxRows

----------------------------------------------------------------------------
(* Values.  SQLite values carry their storage class; Python values carry   *)
(* their type.  Text is a sequence of characters.                          *)

SqlNull == [t |-> "null"]
SqlInt(n) == [t |-> "int", v |-> n]
SqlText(s) == [t |-> "text", v |-> s]

None == [t |-> "None"]
PyStr(s) == [t |-> "str", v |-> s]
PyBool(b) == [t |-> "bool", v |-> b]
PyInt(n) == [t |-> "int", v |-> n]
PyRef(o) == [t |-> "Taxon", v |-> o]      \* a reference to the object o

NoRow == [t |-> "norow"]
NoObj == [t |-> "noobj"]

\* code points of the characters used
Ord(c) == CASE c = "N" -> 78 [] c = "a" -> 97 [] c = "b" -> 98
            [] c = "e" -> 101 [] c = "n" -> 110 [] c = "o" -> 111

----------------------------------------------------------------------------
(* The schema *)

\* clorm_fields of Taxon, in declaration order (id is inherited from Model
\* and is not in the class's own __dict__)
clorm_fields == <<"name", "extinct", "parent">>

Attrs == {"id", "name", "extinct", "parent"}

\* Field.name: the column of a field
FieldName(attr) == IF attr = "extinct" THEN "is_extinct" ELSE attr

Columns == {FieldName(a) : a \in Attrs}

\* Field.default
FieldDefault(attr) == IF attr = "extinct" THEN PyBool(FALSE) ELSE None

\* Field.get_resolved_type: (full type, type object, allow_none)
get_resolved_type(attr) ==
    CASE attr = "id"      -> [full |-> "Id", type |-> "int", allow_none |-> FALSE]
      [] attr = "name"    -> [full |-> "str", type |-> "str", allow_none |-> FALSE]
      [] attr = "extinct" -> [full |-> "bool", type |-> "bool", allow_none |-> FALSE]
      [] attr = "parent"  -> [full |-> "Taxon | None", type |-> "Taxon", allow_none |-> TRUE]

type_object(attr) == get_resolved_type(attr).type
allow_none(attr) == get_resolved_type(attr).allow_none

\* a full type that forgets the primary-key placeholder
full_type_plain(attr) == get_resolved_type(attr).type

full_type(attr) == get_resolved_type(attr).full

\* isinstance(value, type): bool is a subclass of int
IsInstance(value, type) ==
    \/ value.t = type
    \/ type = "int" /\ value.t = "bool"

----------------------------------------------------------------------------
(* The codec of a field *)

\* sqlite3's binding of a Python value to a statement parameter:
\* str -> TEXT, bool and int -> INTEGER (True is 1), None -> NULL
Adapt(value) ==
    CASE value.t = "str"  -> SqlText(value.v)
      [] value.t = "bool" -> SqlInt(IF value.v THEN 1 ELSE 0)
      [] value.t = "int"  -> SqlInt(value.v)
      [] value.t = "None" -> SqlNull

\* a serialize that lets None through for every field
SerializeRaisesUnlessNone(attr, value) ==
    /\ value # None
    /\ ~IsInstance(value, type_object(attr))

\* Field.serialize raises TypeError
SerializeRaises(attr, value) ==
    /\ ~(allow_none(attr) /\ value = None)
    /\ ~IsInstance(value, type_object(attr))

\* Field.serialize, where it does not raise; h is the heap, read by value.id
serialize(attr, value, h) ==
    IF allow_none(attr) /\ value = None THEN SqlNull
    ELSE IF type_object(attr) = "Taxon" THEN Adapt(PyInt(h[value.v]["id"].v))
    ELSE Adapt(value)

\* str(raw), bool(raw), int(raw) of a SQLite value
PyStrOf(raw) ==
    CASE raw.t = "text" -> PyStr(raw.v)
      [] raw.t = "null" -> PyStr(<<"N", "o", "n", "e">>)
PyBoolOf(raw) ==
    CASE raw.t = "int"  -> PyBool(raw.v # 0)
      [] raw.t = "null" -> PyBool(FALSE)
      [] raw.t = "text" -> PyBool(raw.v # <<>>)
PyIntOf(raw) == PyInt(raw.v)

\* Field.deserialize for the fields whose type object is not a record type
DeserializeScalar(attr, raw) ==
    IF allow_none(attr) /\ raw = SqlNull THEN None
    ELSE CASE type_object(attr) = "str"  -> PyStrOf(raw)
           [] type_object(attr) = "bool" -> PyBoolOf(raw)
           [] type_object(attr) = "int"  -> PyIntOf(raw)

----------------------------------------------------------------------------
(* The storage gateway: SQLite behind Clorm.execute / select_one / select  *)

RowKeys(st) == {k \in DOMAIN st : st[k] # NoRow}

Max(S) == CHOOSE m \in S : \A x \in S : x <= m

\* the rowid SQLite gives the next inserted row of an INTEGER PRIMARY KEY
\* table: one more than the largest rowid in the table
NextRowId(st) == IF RowKeys(st) = {} THEN 1 ELSE Max(RowKeys(st)) + 1

\* the row an INSERT naming the columns DOMAIN vals builds: columns that
\* are not named are NULL (the tables declare no DEFAULT)
InsertedRow(key, vals) ==
    [c \in Columns |-> IF c = "id" THEN SqlInt(key)
                       ELSE IF c \in DOMAIN vals THEN vals[c] ELSE SqlNull]

\* a table that enforces no constraint
ViolatesNotNullNever(row, nn) == FALSE

\* a NOT NULL constraint fails on the row: sqlite3.IntegrityError
ViolatesNotNull(row, nn) == \E c \in nn : row[c] = SqlNull

\* an UPDATE that loses its write
UpdatedRowLost(row, col, raw) == row

\* UPDATE taxon SET col = ? WHERE id = ?, on the row of that id
UpdatedRow(row, col, raw) == [row EXCEPT ![col] = raw]

\* a lookup that finds no row
select_one_none(st, key) == NoRow

\* SELECT * FROM taxon WHERE id = ?, fetchone(): the row, or NoRow for None
select_one(st, key) == IF key \in DOMAIN st THEN st[key] ELSE NoRow

----------------------------------------------------------------------------
(* The identity cache and the record instance *)

LiveObjs(h) == {o \in DOMAIN h : h[o] # NoObj}

\* the object id the allocator hands out
FreshObj(h) == CHOOSE o \in DOMAIN h \ LiveObjs(h) :
                   \A p \in DOMAIN h \ LiveObjs(h) : o <= p

\* dict.update
DictUpdate(d, e) ==
    [c \in DOMAIN d \cup DOMAIN e |-> IF c \in DOMAIN e THEN e[c] ELSE d[c]]

\* Model.__init__: self._clorm_data = {"id": id, **kwargs}
ModelInit(id, kwargs) == DictUpdate([c \in {"id"} |-> SqlInt(id)], kwargs)

\* Model.__new__ without the cache lookup: a new instance on every call
ModelNewUncached(h, c, id, kwargs) ==
    IF LiveObjs(h) = DOMAIN h
    THEN [heap |-> [h EXCEPT ![c[id]] = DictUpdate(@, kwargs)], cache |-> c,
          inst |-> c[id]]
    ELSE LET o == FreshObj(h)
         IN  [heap |-> [h EXCEPT ![o] = ModelInit(id, kwargs)],
              cache |-> [c EXCEPT ![id] = o],
              inst |-> o]

\* Model.__new__: the heap, the cache and the instance it returns
ModelNew(h, c, id, kwargs) ==
    IF c[id] # 0
    THEN [heap |-> [h EXCEPT ![c[id]] = DictUpdate(@, kwargs)],
          cache |-> c,
          inst |-> c[id]]
    ELSE LET o == FreshObj(h)
         IN  [heap |-> [h EXCEPT ![o] = ModelInit(id, kwargs)],
              cache |-> [c EXCEPT ![id] = o],
              inst |-> o]

\* a call that runs __new__ only
ModelCallNewOnly(h, c, id, kwargs) == ModelNew(h, c, id, kwargs)

\* Taxon(id, **kwargs): type.__call__ runs __new__ and then, the result being
\* an instance of the class, __init__ on it with the same arguments
ModelCall(h, c, id, kwargs) ==
    LET n == ModelNew(h, c, id, kwargs)
    IN  [n EXCEPT !.heap = [n.heap EXCEPT ![n.inst] = ModelInit(id, kwargs)]]

\* there is room for one more object
CanAlloc(h) == LiveObjs(h) # DOMAIN h

----------------------------------------------------------------------------
(* Conditions and their lowering *)

\* the condition nodes
Comparison(left, operator, right) ==
    [kind |-> "Comparison", left |-> left, operator |-> operator, right |-> right]
OrCondition(left, right) == [kind |-> "Or", left |-> left, right |-> right]
NotCondition(cond) == [kind |-> "Not", cond |-> cond]
Contains(left, positive, values) ==
    [kind |-> "Contains", left |-> left, positive |-> positive, values |-> values]
OrderBy(field, ascending) == [field |-> field, ascending |-> ascending]

\* Field.is_in and Field.is_not_in
is_in(field, other) == Contains(field, TRUE, other)
is_not_in(field, other) == Contains(field, TRUE, other)

\* Field.asc and Field.desc
asc(field) == OrderBy(field, TRUE)
desc(field) == OrderBy(field, FALSE)

RECURSIVE Join(_, _)
\* sep.join(strs)
Join(strs, sep) ==
    IF strs = <<>> THEN ""
    ELSE IF Len(strs) = 1 THEN strs[1]
    ELSE strs[1] \o sep \o Join(Tail(strs), sep)

\* A lowered condition: the statement text, its positional parameters, and
\* sql, the expression SQLite parses the text to.  exc is the exception
\* raised instead, "" when none.
Lowered(text, params, sql) ==
    [exc |-> "", text |-> text, params |-> params, sql |-> sql]
LoweringRaises(exc) == [exc |-> exc, text |-> "", params |-> <<>>, sql |-> <<>>]

\* a lowering without the special case for None
ComparisonStringifyBound(c, h) ==
    LET col == FieldName(c.left)
    IN  IF SerializeRaises(c.left, c.right) THEN LoweringRaises("TypeError")
        ELSE LET right == serialize(c.left, c.right, h)
             IN  IF c.operator = "INSTR"
                 THEN Lowered("INSTR(" \o col \o ", ?)", <<right>>,
                              [e |-> "instr", col |-> col])
                 ELSE Lowered("(" \o col \o " " \o c.operator \o " ?)", <<right>>,
                              [e |-> "cmp", op |-> c.operator, col |-> col])

\* Comparison.stringify
ComparisonStringify(c, h) ==
    LET col == FieldName(c.left)
    IN  IF c.right = None
        THEN CASE c.operator = "=" ->
                    Lowered("(" \o col \o " IS NULL)", <<>>,
                            [e |-> "isnull", col |-> col])
               [] c.operator = "!=" ->
                    Lowered("(" \o col \o " IS NOT NULL)", <<>>,
                            [e |-> "notnull", col |-> col])
               [] OTHER -> LoweringRaises("TypeError")
        ELSE IF SerializeRaises(c.left, c.right) THEN LoweringRaises("TypeError")
        ELSE LET right == serialize(c.left, c.right, h)
             IN  IF c.operator = "INSTR"
                 THEN Lowered("INSTR(" \o col \o ", ?)", <<right>>,
                              [e |-> "instr", col |-> col])
                 ELSE Lowered("(" \o col \o " " \o c.operator \o " ?)", <<right>>,
                              [e |-> "cmp", op |-> c.operator, col |-> col])

\* Contains.stringify
ContainsStringify(c, h) ==
    IF \E i \in DOMAIN c.values : SerializeRaises(c.left, c.values[i])
    THEN LoweringRaises("TypeError")
    ELSE LET col == FieldName(c.left)
             vals == [i \in DOMAIN c.values |-> serialize(c.left, c.values[i], h)]
             placeholders == Join([i \in DOMAIN vals |-> "?"], ", ")
             condition == IF c.positive THEN "IN" ELSE "NOT IN"
         IN  Lowered("(" \o col \o " " \o condition \o " (" \o placeholders \o "))",
                     vals,
                     [e |-> IF c.positive THEN "in" ELSE "notin",
                      col |-> col, n |-> Len(vals)])

RECURSIVE ConditionStringify(_, _)
\* Condition.stringify, by the class of the node
ConditionStringify(c, h) ==
    CASE c.kind = "Comparison" -> ComparisonStringify(c, h)
      [] c.kind = "Contains" -> ContainsStringify(c, h)
      [] c.kind = "Or" ->
            LET l == ConditionStringify(c.left, h)
                r == ConditionStringify(c.right, h)
            IN  IF l.exc # "" THEN l
                ELSE IF r.exc # "" THEN r
                ELSE Lowered("(" \o l.text \o " OR " \o r.text \o ")",
                             l.params \o r.params,
                             [e |-> "or", l |-> l.sql, r |-> r.sql])
      [] c.kind = "Not" ->
            LET q == ConditionStringify(c.cond, h)
            IN  IF q.exc # "" THEN q
                ELSE Lowered("NOT " \o q.text, q.params, [e |-> "not", x |-> q.sql])

\* a sort key that always lowers to ASC
OrderByStringifyAsc(ob) ==
    [text |-> FieldName(ob.field) \o " ASC",
     sql |-> [col |-> FieldName(ob.field), asc |-> TRUE]]

\* OrderBy.stringify: the text, and sql, the ordering term SQLite parses it to
OrderByStringify(ob) ==
    [text |-> FieldName(ob.field) \o " " \o (IF ob.ascending THEN "ASC" ELSE "DESC"),
     sql |-> [col |-> FieldName(ob.field), asc |-> ob.ascending]]

----------------------------------------------------------------------------
(* Queries *)

\* Query(model, conditions, order_by_columns, limit_clause)
Query(conditions, order_by_columns, limit_clause) ==
    [model |-> "Taxon", conditions |-> conditions,
     order_by_columns |-> order_by_columns, limit_clause |-> limit_clause]

\* Model.select
select == Query(<<>>, <<>>, None)

\* Query.filter, Query.order_by, Query.limit
filter(q, cond) == [q EXCEPT !.conditions = q.conditions \o <<cond>>]
order_by(q, ob) == [q EXCEPT !.order_by_columns = q.order_by_columns \o <<ob>>]
limit(q, n) == [q EXCEPT !.limit_clause = PyInt(n)]

\* a replace that changes the object it is called on and returns it
replaceInPlace(qs, self, changes) ==
    [objs |-> [qs EXCEPT ![self] = DictUpdate(@, changes)], result |-> self]

\* dataclasses.replace(self, **changes) on the Query object self of qs: a new
\* object with the fields of self overridden by changes; objs are the Query
\* objects afterwards and result the identity of the one returned
replace(qs, self, changes) ==
    [objs |-> Append(qs, DictUpdate(qs[self], changes)), result |-> Len(qs) + 1]

\* a reverse relation that selects every row
make_foreign_key_accessor_all(field, self) == select

\* make_foreign_key_accessor(field), the property read on the instance self:
\* field.model_cls.select().filter(field == self)
make_foreign_key_accessor(field, self) ==
    filter(select, Comparison(field, "=", PyRef(self)))

\* Taxon.children, installed by the resolution of parent
children(self) == make_foreign_key_accessor("parent", self)

RECURSIVE Flatten(_)
\* the concatenation of a sequence of sequences
Flatten(ss) == IF ss = <<>> THEN <<>> ELSE Head(ss) \o Flatten(Tail(ss))

\* Query.stringify: the statement text, its parameters, and stmt, the
\* statement SQLite parses the text to
QueryStringify(q, columns, h) ==
    LET pairs == [i \in DOMAIN q.conditions |-> ConditionStringify(q.conditions[i], h)]
        failed == {i \in DOMAIN pairs : pairs[i].exc # ""}
        base == "SELECT " \o columns \o " FROM taxon"
        where == IF q.conditions # <<>>
                 THEN base \o " WHERE "
                          \o Join([i \in DOMAIN pairs |-> pairs[i].text], " AND ")
                 ELSE base
        obs == [i \in DOMAIN q.order_by_columns |->
                   OrderByStringify(q.order_by_columns[i])]
        order == IF q.order_by_columns # <<>>
                 THEN where \o " ORDER BY "
                          \o Join([i \in DOMAIN obs |-> obs[i].text], ", ")
                 ELSE where
        text == IF q.limit_clause # None THEN order \o " LIMIT ?" ELSE order
        condParams == Flatten([i \in DOMAIN pairs |-> pairs[i].params])
        params == IF q.limit_clause # None
                  THEN condParams \o <<Adapt(q.limit_clause)>>
                  ELSE condParams
    IN  IF failed # {}
        THEN [exc |-> pairs[CHOOSE i \in failed : \A j \in failed : i <= j].exc,
              text |-> "", params |-> <<>>, stmt |-> <<>>]
        ELSE [exc |-> "", text |-> text, params |-> params,
              stmt |-> [columns |-> columns,
                        where |-> [i \in DOMAIN pairs |-> pairs[i].sql],
                        order |-> [i \in DOMAIN obs |-> obs[i].sql],
                        limit |-> q.limit_clause # None]]

----------------------------------------------------------------------------
(* SQLite's evaluation of the statements *)

RECURSIVE TextCompare(_, _)
\* memcmp order of two texts: -1, 0 or 1
TextCompare(s, t) ==
    IF s = <<>> /\ t = <<>> THEN 0
    ELSE IF s = <<>> THEN -1
    ELSE IF t = <<>> THEN 1
    ELSE IF Ord(Head(s)) < Ord(Head(t)) THEN -1
    ELSE IF Ord(Head(s)) > Ord(Head(t)) THEN 1
    ELSE TextCompare(Tail(s), Tail(t))

\* order of two values: NULL, then INTEGER, then TEXT
SqlCompare(a, b) ==
    LET rank(x) == CASE x.t = "null" -> 0 [] x.t = "int" -> 1 [] x.t = "text" -> 2
    IN  IF rank(a) < rank(b) THEN -1
        ELSE IF rank(a) > rank(b) THEN 1
        ELSE CASE a.t = "null" -> 0
               [] a.t = "int" -> IF a.v < b.v THEN -1 ELSE IF a.v > b.v THEN 1 ELSE 0
               [] a.t = "text" -> TextCompare(a.v, b.v)

SqlBool(b) == SqlInt(IF b THEN 1 ELSE 0)

\* a value taken as a condition is true
SqlTrue(x) == x.t = "int" /\ x.v # 0

\* INSTR(hay, needle) on texts: the first position of needle in hay, or 0
Instr(hay, needle) ==
    LET at == {i \in 1..(Len(hay) + 1) :
                  /\ i + Len(needle) - 1 <= Len(hay)
                  /\ SubSeq(hay, i, i + Len(needle) - 1) = needle}
    IN  IF at = {} THEN 0 ELSE CHOOSE i \in at : \A j \in at : i <= j

RECURSIVE NParams(_)
\* the number of ? placeholders of an expression
NParams(e) ==
    CASE e.e \in {"isnull", "notnull"} -> 0
      [] e.e \in {"cmp", "instr"} -> 1
      [] e.e \in {"in", "notin"} -> e.n
      [] e.e = "or" -> NParams(e.l) + NParams(e.r)
      [] e.e = "not" -> NParams(e.x)

RECURSIVE SqlEval(_, _, _)
\* the value of expression e on a row, params bound to its placeholders in
\* order; comparisons with NULL are NULL
SqlEval(e, params, row) ==
    CASE e.e = "isnull" -> SqlBool(row[e.col] = SqlNull)
      [] e.e = "notnull" -> SqlBool(row[e.col] # SqlNull)
      [] e.e = "cmp" ->
            LET a == row[e.col]
                b == params[1]
                c == SqlCompare(a, b)
            IN  IF a = SqlNull \/ b = SqlNull THEN SqlNull
                ELSE (CASE e.op = "=" -> SqlBool(c = 0)
                       [] e.op = "!=" -> SqlBool(c # 0)
                       [] e.op = "<" -> SqlBool(c < 0)
                       [] e.op = "<=" -> SqlBool(c <= 0)
                       [] e.op = ">" -> SqlBool(c > 0)
                       [] e.op = ">=" -> SqlBool(c >= 0))
      [] e.e = "instr" ->
            IF row[e.col] = SqlNull \/ params[1] = SqlNull THEN SqlNull
            ELSE SqlInt(Instr(row[e.col].v, params[1].v))
      [] e.e \in {"in", "notin"} ->
            LET a == row[e.col]
                isIn == IF e.n = 0 THEN SqlBool(FALSE)
                        ELSE IF a = SqlNull THEN SqlNull
                        ELSE IF \E i \in 1..e.n : params[i] # SqlNull
                                    /\ SqlCompare(a, params[i]) = 0
                             THEN SqlBool(TRUE)
                        ELSE IF \E i \in 1..e.n : params[i] = SqlNull THEN SqlNull
                        ELSE SqlBool(FALSE)
            IN  IF e.e = "in" \/ isIn = SqlNull THEN isIn
                ELSE SqlBool(~SqlTrue(isIn))
      [] e.e = "or" ->
            LET n == NParams(e.l)
                l == SqlEval(e.l, SubSeq(params, 1, n), row)
                r == SqlEval(e.r, SubSeq(params, n + 1, Len(params)), row)
            IN  IF SqlTrue(l) \/ SqlTrue(r) THEN SqlBool(TRUE)
                ELSE IF l = SqlNull \/ r = SqlNull THEN SqlNull
                ELSE SqlBool(FALSE)
      [] e.e = "not" ->
            LET x == SqlEval(e.x, params, row)
            IN  IF x = SqlNull THEN SqlNull ELSE SqlBool(~SqlTrue(x))

RECURSIVE WhereHolds(_, _, _)
\* the WHERE clause, a conjunction of expressions, is true of the row
WhereHolds(exprs, params, row) ==
    IF exprs = <<>> THEN TRUE
    ELSE LET n == NParams(Head(exprs))
         IN  /\ SqlTrue(SqlEval(Head(exprs), SubSeq(params, 1, n), row))
             /\ WhereHolds(Tail(exprs), SubSeq(params, n + 1, Len(params)), row)

RECURSIVE RowBefore(_, _, _)
\* row r sorts strictly before row s under the ORDER BY terms
RowBefore(r, s, order) ==
    IF order = <<>> THEN FALSE
    ELSE LET c == SqlCompare(r[Head(order).col], s[Head(order).col])
             d == IF Head(order).asc THEN c ELSE 0 - c
         IN  IF d < 0 THEN TRUE
             ELSE IF d > 0 THEN FALSE
             ELSE RowBefore(r, s, Tail(order))

RECURSIVE SortRows(_, _)
\* the rows sorted by the ORDER BY terms, rows that compare equal staying in
\* scan order
SortRows(rows, order) ==
    IF rows = <<>> THEN <<>>
    ELSE LET n == Len(rows)
             front == SortRows(SubSeq(rows, 1, n - 1), order)
             r == rows[n]
             k == Cardinality({i \in DOMAIN front : ~RowBefore(r, front[i], order)})
         IN  SubSeq(front, 1, k) \o <<r>> \o SubSeq(front, k + 1, Len(front))

RECURSIVE ScanFrom(_, _)
\* the rows of the table from key k on, in rowid order
ScanFrom(st, k) ==
    IF k \notin DOMAIN st THEN <<>>
    ELSE (IF st[k] = NoRow THEN <<>> ELSE <<st[k]>>) \o ScanFrom(st, k + 1)

\* the rows a SELECT statement returns; a negative LIMIT is no limit
SelectRows(st, stmt, params) ==
    LET nWhere == Len(params) - (IF stmt.limit THEN 1 ELSE 0)
        matching == SelectSeq(ScanFrom(st, 1),
                        LAMBDA row : WhereHolds(stmt.where, SubSeq(params, 1, nWhere), row))
        sorted == SortRows(matching, stmt.order)
        lim == params[Len(params)].v
    IN  IF stmt.limit /\ lim >= 0 /\ lim < Len(sorted)
        THEN SubSeq(sorted, 1, lim)
        ELSE sorted

\* a COUNT(*) that counts the rows the LIMIT lets through
SelectCountLimited(st, stmt, params) ==
    <<SqlInt(Len(SelectRows(st, stmt, params)))>>

\* the rows a SELECT COUNT(*) statement returns.  The aggregate makes one
\* row, the number of rows the WHERE clause is true of; ORDER BY sorts that
\* one row and LIMIT applies to it, so LIMIT 0 leaves no row
SelectCount(st, stmt, params) ==
    LET nWhere == Len(params) - (IF stmt.limit THEN 1 ELSE 0)
        matching == SelectSeq(ScanFrom(st, 1),
                        LAMBDA row : WhereHolds(stmt.where, SubSeq(params, 1, nWhere), row))
    IN  IF stmt.limit /\ params[Len(params)].v = 0 THEN <<>>
        ELSE <<SqlInt(Len(matching))>>

\* Clorm.select_tuple: fetchone() of the statement, NoRow for None
select_tuple(st, stmt, params) ==
    LET rows == SelectCount(st, stmt, params)
    IN  IF rows = <<>> THEN NoRow ELSE Head(rows)

----------------------------------------------------------------------------
(* Result streams *)

Range(f) == {f[i] : i \in DOMAIN f}

EmptyDict == [c \in {} |-> SqlNull]

Min(S) == CHOOSE m \in S : \A x \in S : m <= x

\* the parameters of the WHERE clause, and the LIMIT operand (negative when
\* the statement has no LIMIT)
WhereParams(stmt, params) ==
    SubSeq(params, 1, Len(params) - (IF stmt.limit THEN 1 ELSE 0))
LimitOf(stmt, params) == IF stmt.limit THEN params[Len(params)].v ELSE -1

\* sqlite3_step on a table scan: the first row after rowid last that the
\* WHERE clause is true of, read from the table as it is now; NoRow at the end
StepScan(st, stmt, params, last) ==
    LET ks == {k \in RowKeys(st) :
                  /\ k > last
                  /\ WhereHolds(stmt.where, WhereParams(stmt, params), st[k])}
    IN  IF ks = {} THEN NoRow ELSE st[Min(ks)]

\* A result stream.  A statement with ORDER BY on columns without an index
\* is run through a sorter: all its rows are read when it is executed.  A
\* statement without ORDER BY scans the table as rows are fetched, and the
\* sqlite3 module steps one row ahead of the row it hands out.
NoCursor == [buf |-> <<>>, live |-> FALSE, stmt |-> <<>>, params |-> <<>>, left |-> 0]

\* a statement that returns no row
OpenCursorExhausted(st, stmt, params) ==
    [NoCursor EXCEPT !.stmt = stmt, !.params = params]

\* Clorm.select: cursor.execute(query, parameters)
OpenCursor(st, stmt, params) ==
    LET lim == LimitOf(stmt, params)
        first == IF lim = 0 THEN NoRow ELSE StepScan(st, stmt, params, 0)
    IN  IF stmt.order # <<>>
        THEN [buf |-> SelectRows(st, stmt, params), live |-> FALSE,
              stmt |-> stmt, params |-> params, left |-> 0]
        ELSE [buf |-> IF first = NoRow THEN <<>> ELSE <<first>>, live |-> TRUE,
              stmt |-> stmt, params |-> params,
              left |-> IF lim > 0 THEN lim - 1 ELSE lim]

\* cursor.fetchmany() with the default arraysize of 1: the stream after the
\* row at its head has been handed out
Fetched(st, cur) ==
    IF ~cur.live THEN [cur EXCEPT !.buf = Tail(@)]
    ELSE LET next == IF cur.left = 0 THEN NoRow
                     ELSE StepScan(st, cur.stmt, cur.params, Head(cur.buf)["id"].v)
         IN  [cur EXCEPT !.buf = IF next = NoRow THEN <<>> ELSE <<next>>,
                         !.left = IF @ > 0 THEN @ - 1 ELSE @]

----------------------------------------------------------------------------
(* History variables, read by the properties only *)

Unset == [t |-> "unset"]

\* a Python value with the instances it refers to named by key
Abs(value, h) ==
    IF value.t = "Taxon" THEN [t |-> "Taxon", key |-> h[value.v]["id"].v] ELSE value

NoSets == [a \in Range(clorm_fields) |-> Unset]

\* a construction request for key id supplies the columns cols
Supplied(ls, id, cols) ==
    [ls EXCEPT ![id] = [a \in Range(clorm_fields) |->
        IF ls[id][a] # Unset /\ FieldName(a) \in cols
        THEN [ls[id][a] EXCEPT !.clean = FALSE] ELSE ls[id][a]]]

\* the table is written while iterations are in progress
Written(log, st, newst) ==
    [it \in DOMAIN log |->
        [log[it] EXCEPT !.dirty = @ \/ (st # newst /\ cursor[it].buf # <<>>)]]

----------------------------------------------------------------------------
(* Record lifecycle: create, construct, load, get, set, delete *)

\* the outcome of an operation, as the caller sees it
Outcome(op, obj, attr, arg, exc, val, stmts) ==
    [op |-> op, obj |-> obj, attr |-> attr, arg |-> arg, exc |-> exc,
     val |-> val, stmts |-> stmts]

\* a statement passed to the storage gateway, with the columns it writes
Stmt(kind, cols, committed) ==
    [kind |-> kind, cols |-> cols, committed |-> committed]

\* an execute that never commits
executeUncommitted(kind, cols, raises) == <<Stmt(kind, cols, FALSE)>>

\* Clorm.execute: the statement is run and, unless it raises, committed
\* before execute returns; the statements the operation has sent
execute(kind, cols, raises) == <<Stmt(kind, cols, ~raises)>>

\* a DELETE without its WHERE clause
delete_all(st, key) == [k \in DOMAIN st |-> NoRow]

\* DELETE FROM taxon WHERE id = ?
delete_row(st, key) == [st EXCEPT ![key] = NoRow]

AttrOf(col) == CHOOSE a \in Attrs : FieldName(a) = col

\* create that ignores the supplied values
CreateCookedDefaultsOnly(attr, kwargs) == FieldDefault(attr)

\* Model.create, the loop over clorm_fields: the value taken for a field,
\* and whether its column is part of the INSERT
CreateCooked(attr, kwargs) ==
    IF attr \in DOMAIN kwargs THEN kwargs[attr] ELSE FieldDefault(attr)

CreateIncludes(attr, kwargs) ==
    \/ attr \in DOMAIN kwargs
    \/ ~(CreateCooked(attr, kwargs) = None /\ ~allow_none(attr))

\* Model.create raises TypeError: a value fails to serialize, or keyword
\* arguments are left over after the loop
CreateRaisesTypeError(kwargs) ==
    \/ \E a \in Range(clorm_fields) :
           CreateIncludes(a, kwargs) /\ SerializeRaises(a, CreateCooked(a, kwargs))
    \/ DOMAIN kwargs \ Range(clorm_fields) # {}

\* column_names and params of the INSERT
CreateColumnNames(kwargs) ==
    LET inc == SelectSeq(clorm_fields, LAMBDA a : CreateIncludes(a, kwargs))
    IN  [i \in 1..Len(inc) |-> FieldName(inc[i])]

CreateParams(kwargs, h) ==
    [c \in Range(CreateColumnNames(kwargs)) |->
        serialize(AttrOf(c), CreateCooked(AttrOf(c), kwargs), h)]

\* An exception that reaches the application ends the behaviour; so does the
\* bound on the number of operations
Running == ret.exc = "" /\ ops < MaxOps

\* Model.create
Create(kwargs) ==
    /\ Running
    /\ ops' = ops + 1
    /\ UNCHANGED <<notNull, schema, cursor, query>>
    /\ IF CreateRaisesTypeError(kwargs)
       THEN /\ ret' = Outcome("create", 0, "", kwargs, "TypeError", None, <<>>)
            /\ UNCHANGED <<store, heap, cache, held, lastSet, iterlog>>
       ELSE LET key == NextRowId(store)
                row == InsertedRow(key, CreateParams(kwargs, heap))
                cols == CreateColumnNames(kwargs)
            IN  IF ViolatesNotNull(row, notNull)
                THEN /\ ret' = Outcome("create", 0, "", kwargs, "IntegrityError",
                                       None, execute("INSERT", cols, TRUE))
                     /\ UNCHANGED <<store, heap, cache, held, lastSet, iterlog>>
                ELSE /\ key \in DOMAIN store
                     /\ cache[key] = 0 => CanAlloc(heap)
                     /\ LET n == ModelCall(heap, cache, key, EmptyDict)
                        IN  /\ store' = [store EXCEPT ![key] = row]
                            /\ heap' = n.heap
                            /\ cache' = n.cache
                            /\ held' = held \cup {n.inst}
                            /\ ret' = Outcome("create", n.inst, "", kwargs, "",
                                              PyRef(n.inst),
                                              execute("INSERT", cols, FALSE))
                     /\ lastSet' = [lastSet EXCEPT ![key] = NoSets]
                     /\ iterlog' = Written(iterlog, store, store')

\* Taxon(id, **attrs) called by the application
Construct(id, attrs) ==
    /\ Running
    /\ ops' = ops + 1
    /\ cache[id] = 0 => CanAlloc(heap)
    /\ LET n == ModelCall(heap, cache, id, attrs)
       IN  /\ heap' = n.heap
           /\ cache' = n.cache
           /\ held' = held \cup {n.inst}
           /\ ret' = Outcome("construct", n.inst, "", [id |-> id, attrs |-> attrs],
                             "", PyRef(n.inst), <<>>)
    /\ lastSet' = Supplied(lastSet, id, DOMAIN attrs)
    /\ UNCHANGED <<store, notNull, schema, cursor, query, iterlog>>

\* Model.load
Load(o) ==
    /\ Running
    /\ ops' = ops + 1
    /\ o \in held
    /\ LET row == select_one(store, heap[o]["id"].v)
           stmts == <<Stmt("SELECT", <<>>, FALSE)>>
       IN  IF row = NoRow
           THEN /\ ret' = Outcome("load", o, "", None, "DoesNotExist", None, stmts)
                /\ UNCHANGED heap
           ELSE /\ ret' = Outcome("load", o, "", None, "", None, stmts)
                /\ heap' = [heap EXCEPT ![o] = DictUpdate(@, row)]
    /\ UNCHANGED <<store, notNull, schema, cache, held, cursor, query, lastSet, iterlog>>

\* Field.__get__: get_raw (loading when the column is not in the shadow),
\* then deserialize, which for a record reference calls Taxon(raw)
Get(o, attr) ==
    /\ Running
    /\ ops' = ops + 1
    /\ o \in held
    /\ UNCHANGED <<store, notNull, schema, cursor, query, lastSet, iterlog>>
    /\ LET col == FieldName(attr)
           missing == col \notin DOMAIN heap[o]
           row == select_one(store, heap[o]["id"].v)
           stmts == IF missing THEN <<Stmt("SELECT", <<>>, FALSE)>> ELSE <<>>
       IN  IF missing /\ row = NoRow
           THEN /\ ret' = Outcome("get", o, attr, None, "DoesNotExist", None, stmts)
                /\ UNCHANGED <<heap, cache, held>>
           ELSE LET h1 == IF missing THEN [heap EXCEPT ![o] = DictUpdate(@, row)]
                          ELSE heap
                    raw == h1[o][col]
                IN  IF type_object(attr) = "Taxon"
                          /\ ~(allow_none(attr) /\ raw = SqlNull)
                    THEN /\ cache[raw.v] = 0 => CanAlloc(h1)
                         /\ LET n == ModelCall(h1, cache, raw.v, EmptyDict)
                            IN  /\ heap' = n.heap
                                /\ cache' = n.cache
                                /\ held' = held \cup {n.inst}
                                /\ ret' = Outcome("get", o, attr, None, "",
                                                  PyRef(n.inst), stmts)
                    ELSE /\ heap' = h1
                         /\ UNCHANGED <<cache, held>>
                         /\ ret' = Outcome("get", o, attr, None, "",
                                           DeserializeScalar(attr, raw), stmts)

\* Field.__set__: serialize, then set_raw
Set(o, attr, value) ==
    /\ Running
    /\ ops' = ops + 1
    /\ o \in held
    /\ UNCHANGED <<notNull, schema, cache, held, cursor, query>>
    /\ IF SerializeRaises(attr, value)
       THEN /\ ret' = Outcome("set", o, attr, value, "TypeError", None, <<>>)
            /\ UNCHANGED <<store, heap, lastSet, iterlog>>
       ELSE IF full_type(attr) = "Id"
       THEN /\ ret' = Outcome("set", o, attr, value, "AttributeError", None, <<>>)
            /\ UNCHANGED <<store, heap, lastSet, iterlog>>
       ELSE LET raw == serialize(attr, value, heap)
                col == FieldName(attr)
                key == heap[o]["id"].v
                exists == store[key] # NoRow
                newrow == UpdatedRow(store[key], col, raw)
            IN  IF exists /\ ViolatesNotNull(newrow, notNull)
                THEN /\ ret' = Outcome("set", o, attr, value, "IntegrityError",
                                       None, execute("UPDATE", <<col>>, TRUE))
                     /\ UNCHANGED <<store, heap, lastSet, iterlog>>
                ELSE /\ store' = IF exists THEN [store EXCEPT ![key] = newrow]
                                 ELSE store
                     /\ heap' = [heap EXCEPT
                                   ![o] = DictUpdate(@, [c \in {col} |-> raw])]
                     /\ ret' = Outcome("set", o, attr, value, "", None,
                                       execute("UPDATE", <<col>>, FALSE))
                     /\ lastSet' = [lastSet EXCEPT ![key][attr] =
                                      IF exists
                                      THEN [v |-> Abs(value, heap), clean |-> TRUE]
                                      ELSE Unset]
                     /\ iterlog' = Written(iterlog, store, store')

\* Model.delete_instance
Delete(o) ==
    /\ Running
    /\ ops' = ops + 1
    /\ o \in held
    /\ store' = delete_row(store, heap[o]["id"].v)
    /\ ret' = Outcome("delete", o, "", None, "", None,
                      execute("DELETE", <<>>, FALSE))
    /\ lastSet' = [lastSet EXCEPT ![heap[o]["id"].v] = NoSets]
    /\ iterlog' = Written(iterlog, store, store')
    /\ UNCHANGED <<notNull, schema, heap, cache, held, cursor, query>>

\* The caller drops its last reference to an instance (del txn).  Its
\* reference count reaches zero, the instance is freed and its entry leaves
\* the WeakValueDictionary.
Drop(o) ==
    /\ Running
    /\ ops' = ops + 1
    /\ o \in held
    /\ held' = held \ {o}
    /\ heap' = [heap EXCEPT ![o] = NoObj]
    /\ cache' = [k \in DOMAIN cache |-> IF cache[k] = o THEN 0 ELSE cache[k]]
    /\ ret' = Outcome("drop", o, "", None, "", None, <<>>)
    /\ UNCHANGED <<store, notNull, schema, cursor, query, lastSet, iterlog>>

----------------------------------------------------------------------------
(* Query execution *)

\* the iterators the application holds
Iters == {"it1", "it2"}

\* Query.__iter__, yield self.model(**row) in iterator it for the row at the
\* head of its stream cur; the stream is stepped one row ahead before the row
\* is handed out.  log and out are the history and the outcome to complete.
Yield(it, cur, log, out) ==
    LET row == Head(cur.buf)
        id == row["id"].v
        kwargs == [c \in DOMAIN row \ {"id"} |-> row[c]]
    IN  /\ cache[id] = 0 => CanAlloc(heap)
        /\ LET n == ModelCall(heap, cache, id, kwargs)
           IN  /\ heap' = n.heap
               /\ cache' = n.cache
               /\ held' = held \cup {n.inst}
               /\ ret' = [out EXCEPT !.obj = n.inst]
        /\ lastSet' = Supplied(lastSet, id, DOMAIN kwargs)
        /\ iterlog' = [iterlog EXCEPT ![it] = [log EXCEPT !.yielded = Append(@, id)]]
        /\ cursor' = [cursor EXCEPT ![it] = Fetched(store, cur)]

\* The first next() on it = iter(query).  Query.__iter__ is a generator:
\* stringify and Clorm.select run when the first record is asked for, and the
\* same resumption fetches the first row and yields its record (or ends, when
\* the statement returns no row).
IterStart(it, q) ==
    /\ Running
    /\ ops' = ops + 1
    /\ UNCHANGED <<store, notNull, schema, query>>
    /\ LET low == QueryStringify(q, "*", heap)
           cur == OpenCursor(store, low.stmt, low.params)
           out == Outcome("iter", 0, it, q, "", low, <<Stmt("SELECT", <<>>, FALSE)>>)
           log == [active |-> TRUE, q |-> q, at |-> store, yielded |-> <<>>,
                   dirty |-> FALSE]
       IN  IF low.exc # ""
           THEN /\ ret' = Outcome("iter", 0, it, q, low.exc, None, <<>>)
                /\ UNCHANGED <<heap, cache, held, cursor, lastSet, iterlog>>
           ELSE IF cur.buf = <<>>
           THEN /\ ret' = out
                /\ cursor' = [cursor EXCEPT ![it] = cur]
                /\ iterlog' = [iterlog EXCEPT ![it] = log]
                /\ UNCHANGED <<heap, cache, held, lastSet>>
           ELSE Yield(it, cur, log, out)

\* A later next() on the iterator it: fetch the next row, yield its record
IterNext(it) ==
    /\ ret.exc = ""
    /\ cursor[it].buf # <<>>
    /\ Yield(it, cursor[it], iterlog[it],
             Outcome("next", 0, it, Head(cursor[it].buf), "", None, <<>>))
    /\ UNCHANGED <<store, notNull, schema, query, ops>>

\* Query.count: the COUNT(*) variant of the statement is lowered and run,
\* and the one column of its one row is unpacked; no row to unpack raises
Count(q) ==
    /\ Running
    /\ ops' = ops + 1
    /\ UNCHANGED <<store, notNull, schema, heap, cache, held, cursor, query, lastSet,
                   iterlog>>
    /\ LET low == QueryStringify(q, "COUNT(*)", heap)
           row == select_tuple(store, low.stmt, low.params)
           stmts == <<Stmt("SELECT", <<>>, FALSE)>>
       IN  IF low.exc # ""
           THEN ret' = Outcome("count", 0, "", q, low.exc, None, <<>>)
           ELSE IF row = NoRow
           THEN ret' = Outcome("count", 0, "", q, "TypeError", None, stmts)
           ELSE ret' = Outcome("count", 0, "", q, "", PyIntOf(row), stmts)

\* Query.filter(*conds) on the Query object self
Filter(self, conds) ==
    /\ Running
    /\ ops' = ops + 1
    /\ LET r == replace(query, self,
                        [conditions |-> query[self].conditions \o conds])
       IN  /\ query' = r.objs
           /\ ret' = Outcome("filter", self, "", conds, "", r.result, <<>>)
    /\ UNCHANGED <<store, notNull, schema, heap, cache, held, cursor, lastSet, iterlog>>

\* Query.order_by(*orders) on the Query object self
OrderByColumns(self, orders) ==
    /\ Running
    /\ ops' = ops + 1
    /\ LET r == replace(query, self,
                        [order_by_columns |-> query[self].order_by_columns \o orders])
       IN  /\ query' = r.objs
           /\ ret' = Outcome("order_by", self, "", orders, "", r.result, <<>>)
    /\ UNCHANGED <<store, notNull, schema, heap, cache, held, cursor, lastSet, iterlog>>

\* Query.limit(limit) on the Query object self
Limit(self, n) ==
    /\ Running
    /\ ops' = ops + 1
    /\ LET r == replace(query, self, [limit_clause |-> PyInt(n)])
       IN  /\ query' = r.objs
           /\ ret' = Outcome("limit", self, "", n, "", r.result, <<>>)
    /\ UNCHANGED <<store, notNull, schema, heap, cache, held, cursor, lastSet, iterlog>>

\* Query.stringify() on the Query object self
Stringify(self) ==
    /\ Running
    /\ ops' = ops + 1
    /\ LET low == QueryStringify(query[self], "*", heap)
       IN  ret' = Outcome("stringify", self, "", query[self], low.exc,
                          IF low.exc = "" THEN <<low.text, low.params>> ELSE None,
                          <<>>)
    /\ UNCHANGED <<store, notNull, schema, heap, cache, held, cursor, query, lastSet,
                   iterlog>>

----------------------------------------------------------------------------
(* Schema registration and the resolution of field types *)

\* the record types a schema can declare
Types == {"Name", "Taxon", "Zed"}

\* the attributes every record type inherits from Model
ModelAttrs ==
    {"id", "clorm", "clorm_table_name", "clorm_fields", "clorm_backrefs",
     "clorm_try_resolve_types", "load", "create", "select", "delete_instance"}

\* a field whose type is not resolved yet: it has no _type_object
Unresolved == [t |-> "unresolved"]

\* A declared field Field[annot](related_name=...).  kind says how the type
\* parameter names its type: "forward" for a string, evaluated when the
\* field is resolved, "self" for Self, "type" for a class given directly,
\* "unsupported" for any other form (list[int], int | str);
\* optional is the "| None"; related_name is "" when none is declared
FieldDecl(name, kind, ref, optional, related_name) ==
    [name |-> name, kind |-> kind, ref |-> ref, optional |-> optional,
     related_name |-> related_name]

\* the fields of a schema: <<record type, position in its class body>>
FieldIds(decl) == UNION {{<<T, i>> : i \in DOMAIN decl[T]} : T \in Types}

\* the registry before any record type is declared
NoSchema(decl) ==
    [decl |-> decl,
     models |-> {},
     unresolved |-> {},
     resolved |-> [f \in FieldIds(decl) |-> Unresolved],
     attrs |-> [T \in Types |-> {}],
     backrefs |-> [T \in Types |-> <<>>],
     failed |-> {}]

\* Field.resolve_forward_ref: the name is evaluated among the registered
\* record types (get_name_to_model_cls) and the owner's module
resolve_forward_ref(sch, ref) ==
    IF ref \in sch.models \/ ref \notin Types
    THEN [exc |-> "", arg |-> ref]
    ELSE [exc |-> "UnresolvedType", arg |-> ""]

\* Field.get_resolved_type of a declared field of record type T
ResolvedType(sch, T, d) ==
    LET arg == CASE d.kind = "forward" -> resolve_forward_ref(sch, d.ref)
                 [] d.kind = "self" -> [exc |-> "", arg |-> T]
                 [] d.kind = "type" -> [exc |-> "", arg |-> d.ref]
                 [] d.kind = "unsupported" -> [exc |-> "TypeError", arg |-> ""]
    IN  IF arg.exc # "" THEN [exc |-> arg.exc, memo |-> Unresolved]
        ELSE [exc |-> "",
              memo |-> [full |-> IF d.optional THEN arg.arg \o " | None" ELSE arg.arg,
                        type |-> arg.arg,
                        allow_none |-> d.optional]]

\* hasattr(cls, name) for a registered record type
HasAttr(sch, T, name) ==
    \/ name \in ModelAttrs
    \/ \E i \in DOMAIN sch.decl[T] : sch.decl[T][i].name = name
    \/ \E a \in sch.attrs[T] : a.name = name

\* a resolve_type without the test for an earlier resolution
resolve_type_again(sch, f) ==
    LET d == sch.decl[f[1]][f[2]]
        r == ResolvedType(sch, f[1], d)
        s1 == [sch EXCEPT !.resolved[f] = r.memo]
    IN  IF r.exc # "" THEN [sch |-> sch, exc |-> r.exc]
        ELSE IF d.related_name = "" THEN [sch |-> s1, exc |-> ""]
        ELSE IF r.memo.type \notin Types THEN [sch |-> s1, exc |-> "TypeError"]
        ELSE IF HasAttr(s1, r.memo.type, d.related_name)
        THEN [sch |-> s1, exc |-> "TypeError"]
        ELSE [sch |-> [s1 EXCEPT
                         !.attrs[r.memo.type] =
                             @ \cup {[name |-> d.related_name, field |-> f]},
                         !.backrefs[r.memo.type] = Append(@, f)],
              exc |-> ""]

\* Field.resolve_type of field f: the registry afterwards and the exception
\* raised, "" when none
resolve_type(sch, f) ==
    LET d == sch.decl[f[1]][f[2]]
        r == ResolvedType(sch, f[1], d)
        s1 == [sch EXCEPT !.resolved[f] = r.memo]
    IN  IF sch.resolved[f] # Unresolved THEN [sch |-> sch, exc |-> ""]
        ELSE IF r.exc # "" THEN [sch |-> sch, exc |-> r.exc]
        ELSE IF d.related_name = "" THEN [sch |-> s1, exc |-> ""]
        ELSE IF r.memo.type \notin Types THEN [sch |-> s1, exc |-> "TypeError"]
        ELSE IF HasAttr(s1, r.memo.type, d.related_name)
        THEN [sch |-> s1, exc |-> "TypeError"]
        ELSE [sch |-> [s1 EXCEPT
                         !.attrs[r.memo.type] =
                             @ \cup {[name |-> d.related_name, field |-> f]},
                         !.backrefs[r.memo.type] = Append(@, f)],
              exc |-> ""]

RECURSIVE TryResolveFields(_, _, _, _)
\* the loop of Model.clorm_try_resolve_types from field i on: UnresolvedType
\* is caught and remembered, any other exception ends the loop
TryResolveFields(sch, T, i, has_unresolved_types) ==
    IF i > Len(sch.decl[T])
    THEN [sch |-> sch, exc |-> "", ok |-> ~has_unresolved_types]
    ELSE LET r == resolve_type(sch, <<T, i>>)
         IN  IF r.exc \notin {"", "UnresolvedType"}
             THEN [sch |-> r.sch, exc |-> r.exc, ok |-> FALSE]
             ELSE TryResolveFields(r.sch, T, i + 1,
                                   has_unresolved_types \/ r.exc = "UnresolvedType")

\* a clorm_try_resolve_types that reports every record type resolved
clorm_try_resolve_types_true(sch, T) ==
    [TryResolveFields(sch, T, 1, FALSE) EXCEPT !.ok = TRUE]

\* Model.clorm_try_resolve_types
clorm_try_resolve_types(sch, T) == TryResolveFields(sch, T, 1, FALSE)

RECURSIVE TryResolveModels(_, _, _)
\* the set comprehension of Clorm.try_resolve_all_types over the models in
\* the order the set yields them; the new set is assigned when it is complete
TryResolveModels(sch, order, still) ==
    IF order = <<>> THEN [sch |-> [sch EXCEPT !.unresolved = still], exc |-> ""]
    ELSE LET r == clorm_try_resolve_types(sch, Head(order))
         IN  IF r.exc # "" THEN [sch |-> r.sch, exc |-> r.exc]
             ELSE TryResolveModels(r.sch, Tail(order),
                                   IF r.ok THEN still ELSE still \cup {Head(order)})

\* a registry that never retries
try_resolve_all_types_never(sch, order) == [sch |-> sch, exc |-> ""]

\* Clorm.try_resolve_all_types
try_resolve_all_types(sch, order) == TryResolveModels(sch, order, {})

\* the orders in which a set can yield its members
Orders(S) == {o \in [1..Cardinality(S) -> S] : Range(o) = S}

\* Model.__init_subclass__ for the class statement of record type T.  A type
\* a field names directly is a class that exists when the class body runs.
\* The program can catch what a class statement or a field read raises and
\* go on with the same registry; failed remembers the record types whose
\* class statement raised.
InitSubclass(T) ==
    /\ ops < MaxOps
    /\ ops' = ops + 1
    /\ T \in Types \ schema.models
    /\ \A i \in DOMAIN schema.decl[T] :
          LET d == schema.decl[T][i]
          IN  d.kind = "type" /\ d.ref \in Types => d.ref \in schema.models
    /\ \E order \in Orders(schema.unresolved \cup {T}) :
          LET s0 == [schema EXCEPT !.models = @ \cup {T},
                                   !.unresolved = @ \cup {T}]
              r == try_resolve_all_types(s0, order)
          IN  /\ schema' = [r.sch EXCEPT
                                !.failed = IF r.exc # "" THEN @ \cup {T} ELSE @]
              /\ ret' = Outcome("register", 0, "", T, r.exc, None, <<>>)
    /\ UNCHANGED <<store, notNull, heap, cache, held, cursor, query, lastSet,
                   iterlog>>

\* A read of Field.type_object, allow_none or full_type of field i of the
\* registered record type T, as create (the default test and serialize),
\* set and the lowering of a condition (serialize) and get (deserialize)
\* make it; site names the operation.  None of them handles an exception of
\* the read: what the read raises, the operation raises.
FieldType(site, T, i) ==
    /\ ops < MaxOps
    /\ ops' = ops + 1
    /\ T \in schema.models
    /\ LET r == resolve_type(schema, <<T, i>>)
       IN  /\ schema' = r.sch
           /\ ret' = Outcome(site, 0, schema.decl[T][i].name, T, r.exc,
                             IF r.exc = "" THEN r.sch.resolved[<<T, i>>] ELSE None,
                             <<>>)
    /\ UNCHANGED <<store, notNull, heap, cache, held, cursor, query, lastSet,
                   iterlog>>

----------------------------------------------------------------------------
(* Inputs of the operations *)

A == <<"a">>
AB == <<"a", "b">>
B == <<"b">>

\* rows of the table
Row(k, name, ext, parent) ==
    InsertedRow(k, [name |-> name, is_extinct |-> SqlInt(ext), parent |-> parent])

\* the row a table holds under key k at start, if any
InitRow(k) ==
    IF k % 2 = 1 THEN Row(k, SqlText(A), 0, SqlNull)
    ELSE Row(k, SqlText(AB), 1, SqlInt(1))

\* tables of rows with a name
Stores == {st \in [Keys -> {NoRow} \cup {InitRow(k) : k \in Keys}] :
              \A k \in Keys : st[k] \in {NoRow, InitRow(k)}}

\* the rows a table without constraints can hold under key k
QRows(k) ==
    {NoRow, Row(k, SqlText(AB), 1, SqlInt(1)),
     IF k % 2 = 1 THEN Row(k, SqlText(A), 0, SqlNull) ELSE Row(k, SqlNull, 0, SqlInt(1))}

\* tables of any rows
QStores == {st \in [QKeys -> UNION {QRows(k) : k \in QKeys}] :
               \A k \in QKeys : st[k] \in QRows(k)}

\* keyword arguments of create, record lifecycle
LifeKwargs(hd) ==
    {EmptyDict, [name |-> PyStr(A)], [id |-> PyInt(1), name |-> PyStr(A)]}
        \cup {[name |-> PyStr(AB), extinct |-> PyBool(TRUE), parent |-> PyRef(o)] :
                 o \in hd}

\* keyword arguments of a direct construction Taxon(id, **attrs): columns
\* of a row, as query iteration passes them
ConstructAttrs == {EmptyDict, [name |-> SqlText(AB)]}

\* field writes, record lifecycle
LifeSets(hd) ==
    {<<"name", PyStr(AB)>>, <<"name", None>>, <<"id", PyInt(2)>>}
        \cup {<<"parent", PyRef(o)>> : o \in hd}

\* the queries iterated in the record lifecycle
LifeQueries ==
    {select, limit(order_by(select, desc("name")), 1)}

\* tables at the start, codec: empty, or the one row of key 1
CodecStores ==
    {[k \in Keys |-> NoRow], [k \in Keys |-> IF k = 1 THEN InitRow(1) ELSE NoRow]}

\* keyword arguments of create, codec
CodecKwargs(hd) ==
    LET nameOpts == {EmptyDict} \cup {[c \in {"name"} |-> v] :
                        v \in {PyStr(AB), None}}
        extOpts  == {EmptyDict} \cup {[c \in {"extinct"} |-> v] :
                        v \in {PyBool(TRUE), PyInt(1)}}
        parOpts  == {EmptyDict} \cup {[c \in {"parent"} |-> v] :
                        v \in {PyRef(o) : o \in hd} \cup {None, PyInt(1)}}
        extra    == {[c \in {x} |-> PyInt(1)] : x \in {"id", "not_a_kwarg"}}
        plain    == {DictUpdate(DictUpdate(n, e), q) :
                        n \in nameOpts, e \in extOpts, q \in parOpts}
    IN  plain \cup {DictUpdate(n, x) : n \in nameOpts, x \in extra}

\* field writes, codec
CodecSets(hd) ==
    {<<"id", PyInt(1)>>, <<"id", PyStr(AB)>>,
     <<"name", PyStr(AB)>>, <<"name", None>>, <<"name", PyInt(1)>>,
     <<"extinct", PyBool(TRUE)>>, <<"extinct", PyInt(1)>>, <<"extinct", None>>,
     <<"parent", None>>, <<"parent", PyInt(1)>>}
        \cup {<<"parent", PyRef(o)>> : o \in hd}

\* conditions
QAtoms ==
    {Comparison("name", op, PyStr(A)) : op \in {"=", "!=", ">"}}
        \cup {Comparison("name", op, PyStr(AB)) : op \in {"<", "<=", ">=", "INSTR"}}
        \cup {Comparison("name", "INSTR", PyStr(B)),
              Comparison("extinct", "=", PyBool(TRUE)),
              Comparison("id", ">", PyInt(1)),
              Comparison("name", "=", PyBool(TRUE))}
        \cup {Comparison(f, op, None) : f \in Attrs, op \in {"=", "!="}}
        \cup {Comparison("name", op, None) : op \in {"<", "<=", ">", ">=", "INSTR"}}
        \cup {Comparison("parent", "<", None)}
        \cup {is_in("name", vs) : vs \in {<<>>, <<PyStr(B)>>, <<PyStr(A), PyStr(AB)>>}}
        \cup {is_not_in("name", vs) : vs \in {<<>>, <<PyStr(A)>>, <<PyStr(A), PyStr(AB)>>}}
        \cup {is_in("parent", <<None, None>>), is_not_in("parent", <<None>>),
              is_in("name", <<None>>)}

QCompound ==
    LET a == Comparison("name", "=", PyStr(A))
        b == Comparison("name", "INSTR", PyStr(B))
        n == Comparison("name", "=", None)
        e == Comparison("extinct", "=", PyBool(TRUE))
    IN  {NotCondition(a), NotCondition(b), NotCondition(n),
         OrCondition(a, b), OrCondition(e, a), OrCondition(n, e),
         OrCondition(is_in("name", <<PyStr(A), PyStr(AB)>>), e),
         NotCondition(OrCondition(a, e)), OrCondition(NotCondition(b), e),
         NotCondition(NotCondition(b))}

QConds == QAtoms \cup QCompound

\* sort keys
QOrders ==
    {<<>>, <<asc("name")>>, <<desc("name")>>, <<asc("extinct"), desc("name")>>,
     <<desc("parent"), asc("name")>>}

\* the queries executed: one condition each, and filters chained with every
\* sort key, or with a limit with and without a sort key
Queries ==
    {filter(select, c) : c \in QConds}
        \cup {q \in {Query(cs, obs, lim) :
                cs \in {<<>>,
                        <<Comparison("extinct", "=", PyBool(FALSE))>>,
                        <<Comparison("name", "!=", PyStr(A)),
                          NotCondition(Comparison("extinct", "=", PyBool(FALSE)))>>,
                        <<OrCondition(Comparison("name", "=", PyStr(A)),
                                      Comparison("name", "=", PyStr(AB))),
                          Comparison("parent", "!=", None)>>},
                obs \in QOrders,
                lim \in {None} \cup {PyInt(n) : n \in 0..MaxLimit}} :
                    q.limit_clause = None
                        \/ q.order_by_columns \in {<<>>, <<desc("name")>>}}

\* the queries counted: those with a limit, and some without
CountQueries ==
    {q \in Queries : q.limit_clause # None}
        \cup {select, order_by(order_by(select, asc("extinct")), desc("name"))}
        \cup {filter(select, c) :
                c \in {Comparison("name", "=", PyStr(AB)),
                       Comparison("name", "!=", None),
                       Comparison("name", "=", PyBool(TRUE)),
                       is_not_in("name", <<PyStr(A)>>),
                       NotCondition(Comparison("name", "=", PyStr(A)))}}

\* tables at the start where queries are iterated more than once: any rows
\* with a name, one name on the odd keys and another on the even ones
RestartStores ==
    {st \in QStores :
        \A k \in QKeys :
            st[k] \in {NoRow, IF k % 2 = 1 THEN Row(k, SqlText(A), 0, SqlNull)
                                ELSE Row(k, SqlText(AB), 1, SqlInt(1))}}

\* the queries iterated more than once
RestartQueries ==
    {select,
     order_by(select, desc("name")),
     filter(select, Comparison("name", "=", PyStr(AB))),
     limit(order_by(filter(select, Comparison("extinct", "=", PyBool(TRUE))),
                    asc("name")), 2)}

\* the arguments of filter and order_by calls in the builder
BuilderConds ==
    {<<>>,
     <<Comparison("name", "=", PyStr(A))>>,
     <<Comparison("extinct", "=", PyBool(TRUE)), Comparison("parent", "!=", None)>>,
     <<Comparison("name", "<", None)>>}

BuilderOrders == {<<>>, <<asc("name")>>, <<desc("extinct"), asc("name")>>}

\* the operations that read the type of a field
Sites == {"create", "get", "set", "stringify"}

NoFields == [T \in Types |-> <<>>]

\* the record type of the lifecycle, as the tests declare it
TaxonDecl ==
    [NoFields EXCEPT
        !["Taxon"] = <<FieldDecl("name", "type", "str", FALSE, ""),
                       FieldDecl("extinct", "type", "bool", FALSE, ""),
                       FieldDecl("parent", "self", "", TRUE, "children")>>]

\* the registry once the class statement of Taxon has run
TaxonSchema ==
    try_resolve_all_types(
        [NoSchema(TaxonDecl) EXCEPT !.models = {"Taxon"}, !.unresolved = {"Taxon"}],
        <<"Taxon">>).sch

\* the schemas registered: Name and Taxon of the foreign-key test; record
\* types that name each other; two reverse relations of one name on one
\* target; a reverse relation of the name of a field of its target; a field
\* of an unsupported type
Decls ==
    {[NoFields EXCEPT
        !["Name"] = <<FieldDecl("taxon", "forward", "Taxon", FALSE, "names"),
                      FieldDecl("root_name", "type", "str", FALSE, "")>>,
        !["Taxon"] = <<FieldDecl("valid_name", "type", "str", FALSE, ""),
                       FieldDecl("parent", "self", "", TRUE, "children"),
                       FieldDecl("base_name", "type", "Name", TRUE, "")>>],
     [NoFields EXCEPT
        !["Name"] = <<FieldDecl("taxon", "forward", "Taxon", FALSE, "names"),
                      FieldDecl("zed", "forward", "Zed", TRUE, "")>>,
        !["Taxon"] = <<FieldDecl("base_name", "forward", "Name", FALSE, "taxa")>>,
        !["Zed"] = <<FieldDecl("taxon", "forward", "Taxon", FALSE, "")>>],
     [NoFields EXCEPT
        !["Name"] = <<FieldDecl("taxon", "forward", "Taxon", FALSE, "names")>>,
        !["Taxon"] = <<FieldDecl("name", "type", "str", FALSE, "")>>,
        !["Zed"] = <<FieldDecl("taxon", "forward", "Taxon", FALSE, "names")>>],
     [NoFields EXCEPT
        !["Name"] = <<FieldDecl("taxon", "forward", "Taxon", FALSE, "parent")>>,
        !["Taxon"] = <<FieldDecl("parent", "self", "", TRUE, "")>>,
        !["Zed"] = <<FieldDecl("name", "forward", "Name", FALSE, "zeds")>>],
     [NoFields EXCEPT
        !["Name"] = <<FieldDecl("root_name", "type", "str", FALSE, ""),
                      FieldDecl("tags", "unsupported", "list[int]", FALSE, "")>>,
        !["Taxon"] = <<FieldDecl("name", "type", "str", FALSE, "")>>,
        !["Zed"] = <<FieldDecl("taxon", "forward", "Taxon", TRUE, "zeds")>>]}

----------------------------------------------------------------------------
(* The specifications *)

\* the table, the instances and the queries before the first operation
DataInit(nns, sts, q) ==
    /\ notNull \in nns
    /\ store \in sts
    /\ heap = [o \in 1..(Cardinality(DOMAIN store) + 1) |-> NoObj]
    /\ cache = [k \in DOMAIN store |-> 0]
    /\ held = {}
    /\ cursor = [it \in Iters |-> NoCursor]
    /\ query \in q
    /\ ret = Outcome("init", 0, "", None, "", None, <<>>)
    /\ ops = 0
    /\ lastSet = [k \in DOMAIN store |-> NoSets]
    /\ iterlog = [it \in Iters |->
                    [active |-> FALSE, q |-> select, at |-> store,
                     yielded |-> <<>>, dirty |-> FALSE]]

\* ... with Taxon registered and its fields resolved
InitWith(nns, sts, q) ==
    /\ DataInit(nns, sts, q)
    /\ schema = TaxonSchema

\* The record lifecycle: every operation, on a table whose name column is
\* declared NOT NULL
Init == InitWith({{"name"}}, Stores, {<<select>>})

Next ==
    \/ \E kwargs \in LifeKwargs(held) : Create(kwargs)
    \/ \E id \in Keys, attrs \in ConstructAttrs : Construct(id, attrs)
    \/ \E o \in held : Load(o)
    \/ \E o \in held, attr \in {"name", "parent"} : Get(o, attr)
    \/ \E o \in held, s \in LifeSets(held) : Set(o, s[1], s[2])
    \/ \E o \in held : Delete(o)
    \/ \E o \in held : Drop(o)
    \/ \E q \in LifeQueries : IterStart("it1", q)
    \/ IterNext("it1")
    \/ \E q \in LifeQueries \cup {children(o) : o \in held} : Count(q)

Spec == Init /\ [][Next]_vars

\* The codec: create and set on well-typed and ill-typed values, get, on a
\* table with the name column declared NOT NULL or not
CodecInit == InitWith({{}, {"name"}}, CodecStores, {<<select>>})

CodecNext ==
    \/ \E kwargs \in CodecKwargs(held) : Create(kwargs)
    \/ \E id \in Keys : Construct(id, EmptyDict)
    \/ \E o \in held, attr \in Attrs : Get(o, attr)
    \/ \E o \in held, s \in CodecSets(held) : Set(o, s[1], s[2])

CodecSpec == CodecInit /\ [][CodecNext]_vars

\* Queries: a query drawn from Queries is executed and iterated, on a table
\* without constraints; rows are deleted while an iteration is in progress
QueryInit == InitWith({{}}, QStores, {<<q>> : q \in Queries})

QueryNext ==
    \/ IterStart("it1", query[1])
    \/ IterNext("it1")
    \/ \E o \in held : cursor["it1"].buf # <<>> /\ Delete(o)

QuerySpec == QueryInit /\ [][QueryNext]_vars

\* Counting: a query drawn from Queries is counted, on a table without
\* constraints, before and after rows are deleted
CountInit == InitWith({{}}, QStores, {<<q>> : q \in CountQueries})

CountNext ==
    \/ Count(query[1])
    \/ Create([name |-> PyStr(AB)])
    \/ \E o \in held : Delete(o)

CountSpec == CountInit /\ [][CountNext]_vars

\* The builder: queries are derived from Taxon.select() and from each other
\* and lowered, on a table without constraints
BuilderInit == InitWith({{}}, CodecStores, {<<select>>})

BuilderNext ==
    \/ \E self \in DOMAIN query, conds \in BuilderConds : Filter(self, conds)
    \/ \E self \in DOMAIN query, orders \in BuilderOrders : OrderByColumns(self, orders)
    \/ \E self \in DOMAIN query, n \in 0..MaxLimit : Limit(self, n)
    \/ \E self \in DOMAIN query : Stringify(self)

BuilderSpec == BuilderInit /\ [][BuilderNext]_vars

\* Restarts: two iterators over one Query value are started, advanced and
\* started anew in any interleaving, on a table without constraints that is
\* written in between
RestartInit == InitWith({{}}, RestartStores, {<<q>> : q \in RestartQueries})

RestartNext ==
    \/ \E it \in Iters : IterStart(it, query[1])
    \/ \E it \in Iters : IterNext(it)
    \/ \E o \in held : Delete(o)
    \/ \E o \in held : Set(o, "name", PyStr(A))
    \/ Create([name |-> PyStr(AB)])

RestartSpec == RestartInit /\ [][RestartNext]_vars

\* The schema: the class statements of a schema run in any order, and the
\* types of the fields of the registered record types are read
SchemaInit ==
    /\ DataInit({{}}, {[k \in Keys |-> NoRow]}, {<<select>>})
    /\ schema \in {NoSchema(decl) : decl \in Decls}

SchemaNext ==
    \/ \E T \in Types : InitSubclass(T)
    \/ \E site \in Sites, f \in FieldIds(schema.decl) : FieldType(site, f[1], f[2])

SchemaSpec == SchemaInit /\ [][SchemaNext]_vars

----------------------------------------------------------------------------
(* Properties *)

\* the key of a live instance
KeyOf(h, o) == h[o]["id"].v

OneInstancePerKey(h) ==
    \A o1, o2 \in LiveObjs(h) : KeyOf(h, o1) = KeyOf(h, o2) => o1 = o2

\* the key the step's construction request asks for: a direct construction,
\* a row yielded by an iteration, a record-reference field read, or the
\* construction at the end of create; 0 when the step makes no request
RequestedKey ==
    CASE ret'.op = "construct" -> ret'.arg.id
      [] ret'.op \in {"iter", "next"} /\ ret'.exc = ""
                /\ iterlog'[ret'.attr].yielded # <<>> ->
            iterlog'[ret'.attr].yielded[Len(iterlog'[ret'.attr].yielded)]
      [] ret'.op = "get" /\ ret'.val.t = "Taxon" ->
            LET o == ret'.obj
                col == FieldName(ret'.attr)
            IN  IF col \in DOMAIN heap[o] THEN heap[o][col].v
                ELSE store[KeyOf(heap, o)][col].v
      [] ret'.op = "create" /\ ret'.exc = "" -> NextRowId(store)
      [] OTHER -> 0

\* the instance the step's construction request returns
ReturnedInstance == IF ret'.op = "get" THEN ret'.val.v ELSE ret'.obj

\* C1: identity map.  After every step there is at most one live instance
\* per key, and a construction request for key K (direct construction, a row
\* yielded by an iteration, a record-reference field read, create) returns
\* an instance of key K that is the instance already referenced for K, if
\* there is one.
C1_IdentityMap ==
    [][/\ OneInstancePerKey(heap')
       /\ RequestedKey # 0 =>
             /\ ReturnedInstance \in held'
             /\ KeyOf(heap', ReturnedInstance) = RequestedKey
             /\ \A p \in held : KeyOf(heap, p) = RequestedKey => ReturnedInstance = p
      ]_vars

\* a field read on a held instance returned that very instance: the
\* construction request of the read found the key's live instance
C1_Witness ==
    /\ ret.op = "get" /\ ret.exc = ""
    /\ ret.val = PyRef(ret.obj)
    /\ ret.obj \in held

\* C2: construct(K, attrs) merges.  A direct construction for a key whose
\* instance is live leaves the shadow equal to the previous shadow overridden
\* by attrs; for a key without live instance the new shadow is {id: K} plus
\* attrs.
C2_ConstructMerges ==
    [][ret'.op = "construct" =>
          LET id == ret'.arg.id
              attrs == ret'.arg.attrs
              inst == ret'.obj
          IN  IF cache[id] # 0
              THEN inst = cache[id] /\ heap'[inst] = DictUpdate(heap[inst], attrs)
              ELSE heap'[inst] = DictUpdate([c \in {"id"} |-> SqlInt(id)], attrs)
      ]_vars

\* the stored form of a value, the instances it refers to named by key
StoredForm(v) ==
    CASE v.t = "Taxon" -> SqlInt(v.key)
      [] v.t = "str"   -> SqlText(v.v)
      [] v.t = "bool"  -> SqlInt(IF v.v THEN 1 ELSE 0)
      [] v.t = "int"   -> SqlInt(v.v)
      [] v.t = "None"  -> SqlNull

\* what a get of the field returns on an instance of key k constructed anew
\* when the table is st:
\* the column is not in the shadow, the row is loaded and deserialized
ReadAfresh(st, k, attr) ==
    LET raw == st[k][FieldName(attr)]
    IN  IF type_object(attr) = "Taxon" /\ raw # SqlNull
        THEN [t |-> "Taxon", key |-> raw.v]
        ELSE DeserializeScalar(attr, raw)

\* the last successful set of the field on key k, no write since: the row
\* holds the value's stored form and reads back as the value
SetIsStored(k, a) ==
    /\ store[k] # NoRow
    /\ store[k][FieldName(a)] = StoredForm(lastSet[k][a].v)
    /\ ReadAfresh(store, k, a) = lastSet[k][a].v

\* the shadow of the key's live instance holds the stored form, or does not
\* hold the column and the next get loads it
SetIsShadowed(k, a) ==
    cache[k] # 0 /\ FieldName(a) \in DOMAIN heap[cache[k]] =>
        heap[cache[k]][FieldName(a)] = StoredForm(lastSet[k][a].v)

\* the step was a successful set on an existing row, or a get of a field
\* last set with no write since
SetJustDone ==
    /\ ret.op = "set" /\ ret.exc = ""
    /\ lastSet[KeyOf(heap, ret.obj)][ret.attr] # Unset
GetAfterSet ==
    /\ ret.op = "get" /\ ret.exc = ""
    /\ lastSet[KeyOf(heap, ret.obj)][ret.attr] # Unset

\* C3 as stated: write-through.  After a successful set of a field to v on
\* an instance whose row exists, the row's column and the shadow entry equal
\* the stored form of v, and as long as nothing is written every get of the
\* field for that key returns v, through the live instance or after the key
\* is constructed anew.
C3_WriteThroughAsStated ==
    /\ \A k \in DOMAIN store : \A a \in Range(clorm_fields) :
          lastSet[k][a] # Unset => SetIsStored(k, a) /\ SetIsShadowed(k, a)
    /\ SetJustDone => FieldName(ret.attr) \in DOMAIN heap[ret.obj]
    /\ GetAfterSet =>
          Abs(ret.val, heap) = lastSet[KeyOf(heap, ret.obj)][ret.attr].v

\* C3: write-through.  After a successful set of a field to v on an instance
\* whose row exists, the row's column and the shadow entry equal the stored
\* form of v.  As long as nothing is written the row reads back as v, and a
\* get of the field for that key returns v provided no construction request
\* for the key has supplied the column since the set (a direct construction
\* with that attribute, or a row yielded by an iteration).
C3_WriteThrough ==
    /\ \A k \in DOMAIN store : \A a \in Range(clorm_fields) :
          lastSet[k][a] # Unset =>
              /\ SetIsStored(k, a)
              /\ lastSet[k][a].clean => SetIsShadowed(k, a)
    /\ SetJustDone => FieldName(ret.attr) \in DOMAIN heap[ret.obj]
    /\ GetAfterSet /\ lastSet[KeyOf(heap, ret.obj)][ret.attr].clean =>
          Abs(ret.val, heap) = lastSet[KeyOf(heap, ret.obj)][ret.attr].v

\* a get returned the value the field was set to
C3_Witness ==
    /\ GetAfterSet
    /\ lastSet[KeyOf(heap, ret.obj)][ret.attr].clean
    /\ Abs(ret.val, heap) = lastSet[KeyOf(heap, ret.obj)][ret.attr].v

\* the fields of a create the round trip speaks of: supplied, or omitted
\* with a default, or omitted and nullable
CreateCovers(kwargs, a) ==
    a \in DOMAIN kwargs \/ FieldDefault(a) # None \/ allow_none(a)

\* the value such a field is to read as
CreateExpected(kwargs, a, h) ==
    IF a \in DOMAIN kwargs THEN Abs(kwargs[a], h) ELSE FieldDefault(a)

\* C4: create round trip with defaults.  A successful create leaves a row
\* whose column FieldName(a), for every field a that was supplied, has a
\* default or is nullable, holds the stored form of the supplied value, else
\* of the default, else null, and reads back as that value on an instance
\* constructed anew; a get on the returned instance right after the create
\* returns that value.
C4_CreateRoundTrip ==
    [][/\ ret'.op = "create" /\ ret'.exc = "" =>
             LET k == KeyOf(heap', ret'.obj)
             IN  /\ DOMAIN store'[k] = Columns
                 /\ \A a \in Range(clorm_fields) : CreateCovers(ret'.arg, a) =>
                       LET v == CreateExpected(ret'.arg, a, heap')
                       IN  /\ store'[k][FieldName(a)] = StoredForm(v)
                           /\ ReadAfresh(store', k, a) = v
       /\ (/\ ret.op = "create" /\ ret.exc = ""
           /\ ret'.op = "get" /\ ret'.obj = ret.obj
           /\ ret'.attr \in Range(clorm_fields)
           /\ CreateCovers(ret.arg, ret'.attr)) =>
             /\ ret'.exc = ""
             /\ Abs(ret'.val, heap') = CreateExpected(ret.arg, ret'.attr, heap)
      ]_vars

\* a create that omitted the field with a default and supplied a record
\* reference has returned its instance
C4_Witness ==
    /\ ret.op = "create" /\ ret.exc = ""
    /\ "extinct" \notin DOMAIN ret.arg
    /\ "parent" \in DOMAIN ret.arg
    /\ ReadAfresh(store, KeyOf(heap, ret.obj), "extinct") = PyBool(FALSE)
    /\ heap[ret.obj] = [c \in {"id"} |-> SqlInt(NextRowId(store) - 1)]

\* the value is inside the declared type of the field: Taxon.name is str,
\* extinct is bool, parent is Taxon | None, id is an int
ValueFits(a, v) ==
    CASE a = "name"    -> v.t = "str"
      [] a = "extinct" -> v.t = "bool"
      [] a = "parent"  -> v.t \in {"Taxon", "None"}
      [] a = "id"      -> v.t \in {"int", "bool"}

\* a create with a keyword that names no accessor, or with a value outside
\* the type of its field
MismatchedCreate(kwargs) ==
    \/ \E n \in DOMAIN kwargs : n \notin Attrs
    \/ \E a \in DOMAIN kwargs \cap Range(clorm_fields) : ~ValueFits(a, kwargs[a])

\* a set of the primary key, or of a value outside the type of the field
MismatchedSet(a, v) == a = "id" \/ ~ValueFits(a, v)

\* C5: value-mismatch failures are fail-fast and atomic.  A create with a
\* keyword that names no accessor, a create or set with a value outside the
\* field's type (null for a non-nullable field included) and a set of the
\* primary key raise TypeError or AttributeError, send no statement to
\* storage and leave the table, the identity cache and every shadow as they
\* were.
C5_MismatchFailsFast ==
    [][(\/ ret'.op = "create" /\ MismatchedCreate(ret'.arg)
        \/ ret'.op = "set" /\ MismatchedSet(ret'.attr, ret'.arg)) =>
           /\ ret'.exc \in {"TypeError", "AttributeError"}
           /\ ret'.stmts = <<>>
           /\ store' = store /\ heap' = heap /\ cache' = cache /\ held' = held
      ]_vars

\* a set of null to the non-nullable name of a held instance with a loaded
\* shadow has raised
C5_Witness ==
    /\ ret.op = "set" /\ ret.attr = "name" /\ ret.arg = None
    /\ ret.exc = "TypeError"
    /\ store[KeyOf(heap, ret.obj)] # NoRow
    /\ "name" \in DOMAIN heap[ret.obj]

\* the fields a create leaves to the storage layer: omitted, without
\* default, not nullable
LeftToStorage(kwargs) ==
    {a \in Range(clorm_fields) :
        a \notin DOMAIN kwargs /\ FieldDefault(a) = None /\ ~allow_none(a)}

\* the step is a create that is well-typed, names fields of the record type
\* only, and omits such a field
OmittingCreate ==
    /\ ret'.op = "create"
    /\ ~MismatchedCreate(ret'.arg)
    /\ DOMAIN ret'.arg \subseteq Range(clorm_fields)
    /\ LeftToStorage(ret'.arg) # {}

\* the create has raised the storage error: no row, no instance
CreateRefused ==
    /\ ret'.exc = "IntegrityError"
    /\ ret'.obj = 0
    /\ store' = store /\ heap' = heap /\ cache' = cache /\ held' = held

C7_Load ==
    [][ret'.op = "load" =>
          LET o == ret'.obj
              k == KeyOf(heap, o)
          IN  /\ store' = store /\ cache' = cache /\ held' = held
              /\ \A p \in DOMAIN heap \ {o} : heap'[p] = heap[p]
              /\ IF store[k] = NoRow
                 THEN ret'.exc = "DoesNotExist" /\ heap'[o] = heap[o]
                 ELSE /\ ret'.exc = ""
                      /\ KeyOf(heap', o) = k
                      /\ DOMAIN heap'[o] = Columns
                      /\ \A c \in Columns : heap'[o][c] = store[k][c]
      ]_vars

\* a load of an instance with a column in its shadow and no row has raised
C7_Witness ==
    /\ ret.op = "load" /\ ret.exc = "DoesNotExist"
    /\ "name" \in DOMAIN heap[ret.obj]
    /\ store[KeyOf(heap, ret.obj)] = NoRow

\* text s is a proper prefix of t, or is smaller at the first place they differ
TextLess(s, t) ==
    \E i \in 1..Len(t) :
        /\ \A j \in 1..(i - 1) : j <= Len(s) /\ s[j] = t[j]
        /\ i = Len(s) + 1 \/ (i <= Len(s) /\ Ord(s[i]) < Ord(t[i]))

\* order of two stored values that are not null: numbers by size, texts by
\* code point, a number before a text
ValueLess(a, b) ==
    CASE a.t = "int" /\ b.t = "int"   -> a.v < b.v
      [] a.t = "text" /\ b.t = "text" -> TextLess(a.v, b.v)
      [] OTHER -> a.t = "int" /\ b.t = "text"

\* text needle occurs in text hay
Occurs(needle, hay) ==
    \E i \in 0..(Len(hay) - Len(needle)) : SubSeq(hay, i + 1, i + Len(needle)) = needle

Truth(b) == IF b THEN "T" ELSE "F"

RECURSIVE Satisfies(_, _)
\* whether a row satisfies a condition: "T", "F", or "U" (unknown) when the
\* test is on a null column value; unknown stays unknown under negation and
\* a disjunction is satisfied as soon as one side is
Satisfies(c, row) ==
    CASE c.kind = "Comparison" ->
            LET a == row[FieldName(c.left)]
                b == StoredForm(c.right)
            IN  IF c.right = None
                THEN Truth((c.operator = "=") <=> (a = SqlNull))
                ELSE IF a = SqlNull THEN "U"
                ELSE (CASE c.operator = "="  -> Truth(a = b)
                        [] c.operator = "!=" -> Truth(a # b)
                        [] c.operator = "<"  -> Truth(ValueLess(a, b))
                        [] c.operator = "<=" -> Truth(ValueLess(a, b) \/ a = b)
                        [] c.operator = ">"  -> Truth(ValueLess(b, a))
                        [] c.operator = ">=" -> Truth(ValueLess(b, a) \/ a = b)
                        [] c.operator = "INSTR" -> Truth(Occurs(b.v, a.v)))
      [] c.kind = "Contains" ->
            LET a == row[FieldName(c.left)]
                members == {StoredForm(v) : v \in Range(c.values)}
                isIn == IF members = {} THEN "F"
                        ELSE IF a = SqlNull THEN "U"
                        ELSE IF a \in members THEN "T"
                        ELSE IF SqlNull \in members THEN "U"
                        ELSE "F"
            IN  IF c.positive \/ isIn = "U" THEN isIn ELSE Truth(isIn = "F")
      [] c.kind = "Or" ->
            LET l == Satisfies(c.left, row)
                r == Satisfies(c.right, row)
            IN  IF l = "T" \/ r = "T" THEN "T"
                ELSE IF l = "U" \/ r = "U" THEN "U" ELSE "F"
      [] c.kind = "Not" ->
            LET x == Satisfies(c.cond, row)
            IN  IF x = "U" THEN "U" ELSE Truth(x = "F")

\* the keys of the rows of table st that satisfy every condition of query q
Matching(q, st) ==
    {k \in RowKeys(st) :
        \A i \in DOMAIN q.conditions : Satisfies(q.conditions[i], st[k]) = "T"}

\* row r comes strictly before row s under one sort key: null first when
\* ascending, last when descending
KeyBefore(ob, r, s) ==
    LET a == IF ob.ascending THEN r[FieldName(ob.field)] ELSE s[FieldName(ob.field)]
        b == IF ob.ascending THEN s[FieldName(ob.field)] ELSE r[FieldName(ob.field)]
    IN  IF a = SqlNull \/ b = SqlNull THEN a = SqlNull /\ b # SqlNull
        ELSE ValueLess(a, b)

\* row r comes strictly before row s under the sort keys of q, in
\* declaration order
SortsBefore(q, r, s) ==
    \E i \in DOMAIN q.order_by_columns :
        /\ KeyBefore(q.order_by_columns[i], r, s)
        /\ \A j \in 1..(i - 1) :
              r[FieldName(q.order_by_columns[j].field)]
                  = s[FieldName(q.order_by_columns[j].field)]

\* the number of records the query yields on table st
ResultSize(q, st) ==
    LET n == Cardinality(Matching(q, st))
    IN  IF q.limit_clause # None /\ q.limit_clause.v < n THEN q.limit_clause.v ELSE n

\* what the iteration of iterator it has yielded agrees with the table st:
\* one record per yielded row, rows that satisfy the conditions, none twice,
\* in sort order; once it is exhausted, as many as the limit allows and no
\* row left out that sorts before a yielded one
YieldsResultOf(it, st) ==
    LET q == iterlog[it].q
        ys == iterlog[it].yielded
    IN  /\ \A i \in DOMAIN ys : ys[i] \in Matching(q, st)
        /\ \A i, j \in DOMAIN ys :
              i < j => ys[i] # ys[j] /\ ~SortsBefore(q, st[ys[j]], st[ys[i]])
        /\ Len(ys) <= ResultSize(q, st)
        /\ ret.op \in {"iter", "next"} /\ ret.attr = it /\ ys # <<>> =>
              /\ KeyOf(heap, ret.obj) = ys[Len(ys)]
              /\ heap[ret.obj] = st[ys[Len(ys)]]
        /\ cursor[it].buf = <<>> =>
              /\ Len(ys) = ResultSize(q, st)
              /\ \A m \in Matching(q, st) \ Range(ys) : \A i \in DOMAIN ys :
                    ~SortsBefore(q, st[m], st[ys[i]])

IterationRuns(it) == iterlog[it].active /\ ret.exc = ""

ExclusionLists == {<<>>, <<PyStr(A)>>, <<PyStr(A), PyStr(AB)>>}

\* the keys of the rows of st whose name is not null and not a member of vs
Excluded(vs, st) ==
    {k \in RowKeys(st) :
        /\ st[k]["name"] # SqlNull
        /\ st[k]["name"] \notin {StoredForm(v) : v \in Range(vs)}}

\* C9: exclusion.  A query filtered by name.is_not_in(vs) is lowered to
\* (name NOT IN (?, ...)) with one parameter per member of vs, and its
\* iteration yields the rows whose name is not a member of vs.
C9_Exclusion ==
    \A vs \in ExclusionLists :
        ret.op \in {"iter", "next"} /\ iterlog["it1"].active
              /\ iterlog["it1"].q = filter(select, is_not_in("name", vs)) =>
            /\ ret.exc = ""
            /\ ret.op = "iter" =>
                  /\ ret.val.text = "SELECT * FROM taxon WHERE (name NOT IN ("
                                       \o Join([i \in DOMAIN vs |-> "?"], ", ") \o "))"
                  /\ ret.val.params = [i \in DOMAIN vs |-> StoredForm(vs[i])]
            /\ Range(iterlog["it1"].yielded) \subseteq Excluded(vs, iterlog["it1"].at)
            /\ cursor["it1"].buf = <<>> /\ ~iterlog["it1"].dirty =>
                  Range(iterlog["it1"].yielded) = Excluded(vs, iterlog["it1"].at)

\* the comparison operators
Operators == {"=", "!=", "<", "<=", ">", ">=", "INSTR"}

\* C10: null comparison.  A query filtered by field == None is lowered to
\* (column IS NULL) and one filtered by field != None to
\* (column IS NOT NULL), with no parameter; with any other operator and None
\* the lowering raises TypeError and no statement is executed.
C10_NullComparison ==
    \A f \in Attrs, op \in Operators :
        ret.op = "iter" /\ ret.arg = filter(select, Comparison(f, op, None)) =>
            IF op \in {"=", "!="}
            THEN /\ ret.exc = ""
                 /\ ret.val.text = "SELECT * FROM taxon WHERE (" \o FieldName(f)
                        \o (IF op = "=" THEN " IS NULL)" ELSE " IS NOT NULL)")
                 /\ ret.val.params = <<>>
            ELSE /\ ret.exc = "TypeError"
                 /\ ret.stmts = <<>>

\* a query on parent == None has been lowered and executed
C10_Witness ==
    /\ ret.op = "iter" /\ ret.exc = ""
    /\ ret.arg = filter(select, Comparison("parent", "=", None))
    /\ ret.val.text = "SELECT * FROM taxon WHERE (parent IS NULL)"
    /\ ret.val.params = <<>>

\* the keys of the rows of st whose parent column holds the key k
Referencing(st, k) == {c \in RowKeys(st) : st[c]["parent"] = SqlInt(k)}

\* C11: reverse relation.  For every held instance X, whatever creates,
\* field writes and deletes came before, X.children is the query on parent
\* == X, it lowers to (parent = ?) with X's key as parameter, and its count
\* is the number of stored rows whose parent column holds X's key.
C11_ReverseRelation ==
    \A o \in held :
        ret.op = "count" /\ ret.arg = children(o) =>
            /\ ret.arg.conditions = <<Comparison("parent", "=", PyRef(o))>>
            /\ ret.exc = ""
            /\ ret.val = PyInt(Cardinality(Referencing(store, KeyOf(heap, o))))

\* the children of a held instance have been counted as one, the row of
\* another held instance referring to it
C11_Witness ==
    \E o, c \in held :
        /\ ret.op = "count" /\ ret.arg = children(o)
        /\ ret.val = PyInt(1)
        /\ Referencing(store, KeyOf(heap, o)) = {KeyOf(heap, c)}
        /\ heap[c] = [x \in {"id"} |-> SqlInt(KeyOf(heap, c))]

\* the Query object the builder call of this step returned
Built == query'[ret'.val]

\* C12: query values are immutable under the builder.  A filter, order_by or
\* limit call returns a Query object that did not exist before and leaves
\* every existing Query object with its record type, condition list,
\* sort-key list and limit, hence lowering to the same text and parameters.
\* The object returned has the receiver's fields, but for the conditions of
\* filter and the sort keys of order_by appended in call order to the
\* receiver's, and for the limit of limit.
C12_BuilderImmutable ==
    [][/\ \A i \in DOMAIN query :
             /\ i \in DOMAIN query' /\ query'[i] = query[i]
             /\ QueryStringify(query'[i], "*", heap')
                    = QueryStringify(query[i], "*", heap)
       /\ ret'.op \in {"filter", "order_by", "limit"} =>
             LET self == query[ret'.obj]
             IN  /\ ret'.val \in DOMAIN query' \ DOMAIN query
                 /\ Built.model = self.model
                 /\ Built.conditions =
                       IF ret'.op = "filter" THEN self.conditions \o ret'.arg
                       ELSE self.conditions
                 /\ Built.order_by_columns =
                       IF ret'.op = "order_by" THEN self.order_by_columns \o ret'.arg
                       ELSE self.order_by_columns
                 /\ Built.limit_clause =
                       IF ret'.op = "limit" THEN PyInt(ret'.arg) ELSE self.limit_clause
      ]_vars

\* Taxon.select() was filtered, the result filtered again and that result
\* limited: four objects, each with its own fields
C12_Witness ==
    /\ ret.op = "limit" /\ ret.obj = 3
    /\ Len(query) = 4
    /\ query[1] = select
    /\ Len(query[2].conditions) = 1 /\ query[2].limit_clause = None
    /\ Len(query[3].conditions) = 3 /\ query[3].limit_clause = None
    /\ query[4] = [query[3] EXCEPT !.limit_clause = PyInt(1)]

\* C13: the unresolved-type signal never escapes.  No registration and no
\* operation that reads the type of a field (create, get, set, the lowering
\* of a condition) raises UnresolvedType, also while the record type a field
\* names is not registered.
C13_UnresolvedNeverEscapes == ret.exc # "UnresolvedType"

\* the statements of the step, none of them committed
NothingCommitted ==
    /\ Len(ret'.stmts) <= 1
    /\ \A i \in DOMAIN ret'.stmts : ~ret'.stmts[i].committed

\* the rows that differ between two tables
ChangedKeys(st, newst) == {k \in DOMAIN st : newst[k] # st[k]}

\* C14: one statement per mutation, committed at once.  A successful set
\* sends one UPDATE of the one column of the field, a successful create one
\* INSERT and a delete one DELETE, each committed and nothing else sent; the
\* set changes at most that column of the row of the key, the create adds
\* one row.  A mutation that raises commits nothing and leaves the table as
\* it was, so that every earlier write is still stored.
C14_OneStatementCommitted ==
    [][/\ ret'.op = "set" /\ ret'.exc = "" =>
             LET k == KeyOf(heap, ret'.obj)
                 col == FieldName(ret'.attr)
             IN  /\ ret'.stmts = <<Stmt("UPDATE", <<col>>, TRUE)>>
                 /\ ChangedKeys(store, store') \subseteq {k}
                 /\ store[k] # NoRow =>
                       \A c \in Columns \ {col} : store'[k][c] = store[k][c]
       /\ ret'.op = "create" /\ ret'.exc = "" =>
             /\ Len(ret'.stmts) = 1
             /\ ret'.stmts[1].kind = "INSERT" /\ ret'.stmts[1].committed
             /\ ChangedKeys(store, store') = {KeyOf(heap', ret'.obj)}
             /\ store[KeyOf(heap', ret'.obj)] = NoRow
       /\ ret'.op = "delete" =>
             /\ ret'.exc = ""
             /\ ret'.stmts = <<Stmt("DELETE", <<>>, TRUE)>>
             /\ ChangedKeys(store, store') \subseteq {KeyOf(heap, ret'.obj)}
       /\ ret'.op \in {"set", "create", "delete"} /\ ret'.exc # "" =>
             /\ NothingCommitted
             /\ store' = store
             /\ \A k \in DOMAIN store : \A a \in Range(clorm_fields) :
                   lastSet[k][a] # Unset =>
                       store'[k][FieldName(a)] = StoredForm(lastSet[k][a].v)
      ]_vars

\* a set has raised on an instance after a set on it succeeded, and the
\* value of the first is stored
C14_Witness ==
    /\ ret.op = "set" /\ ret.exc = "TypeError"
    /\ lastSet[KeyOf(heap, ret.obj)]["name"] # Unset
    /\ store[KeyOf(heap, ret.obj)]["name"] = SqlText(AB)
    /\ heap[ret.obj]["name"] = SqlText(AB)

\* C15: the primary key is immutable.  The id entry of the shadow of every
\* live instance is the key it was constructed with and no step changes it,
\* whatever the step: construction with attributes, load, get, set, a
\* yielded row, delete.  No statement names id as a written column, no row
\* changes its id, a create with an id argument raises TypeError and a set
\* of id raises, both without a statement.
C15_KeyImmutable ==
    [][/\ \A k \in DOMAIN cache' :
             cache'[k] # 0 => heap'[cache'[k]]["id"] = SqlInt(k)
       /\ \A o \in LiveObjs(heap) \cap LiveObjs(heap') :
             heap'[o]["id"] = heap[o]["id"]
       /\ \A i \in DOMAIN ret'.stmts : "id" \notin Range(ret'.stmts[i].cols)
       /\ \A k \in RowKeys(store) \cap RowKeys(store') :
             store'[k]["id"] = store[k]["id"]
       /\ ret'.op = "create" /\ "id" \in DOMAIN ret'.arg =>
             /\ ret'.exc = "TypeError" /\ ret'.stmts = <<>>
             /\ store' = store /\ heap' = heap
       /\ ret'.op = "set" /\ ret'.attr = "id" =>
             /\ ret'.exc \in {"TypeError", "AttributeError"} /\ ret'.stmts = <<>>
             /\ store' = store /\ heap' = heap
      ]_vars

\* a set of id to another key on an instance with a loaded shadow has raised
C15_Witness ==
    /\ ret.op = "set" /\ ret.attr = "id" /\ ret.arg = PyInt(2)
    /\ ret.exc = "AttributeError"
    /\ heap[ret.obj]["id"] = SqlInt(1)
    /\ DOMAIN heap[ret.obj] = Columns

\* the iteration of iterator it yields the result of its query on the table
\* as it was when it was executed
YieldsOwnResult(it) == YieldsResultOf(it, iterlog[it].at)

\* the step is a next() on an iterator: nothing of the Query objects and
\* nothing of the other iterators changes, and a first next() executes the
\* statement on the table as it is
IterationStep ==
    ret'.op \in {"iter", "next"} =>
        /\ query' = query
        /\ \A it \in Iters \ {ret'.attr} :
              cursor'[it] = cursor[it] /\ iterlog'[it] = iterlog[it]
        /\ ret'.op = "iter" /\ ret'.exc = "" =>
              /\ iterlog'[ret'.attr].at = store
              /\ iterlog'[ret'.attr].q = ret'.arg
              /\ Len(iterlog'[ret'.attr].yielded) <= 1

----------------------------------------------------------------------------
(* C17 *)

\* the statement of query q can be lowered: every operand has the type of
\* the field it is compared with
Lowers(q) == QueryStringify(q, "*", heap).exc = ""

\* C17: count.  q.count() constructs no instance and changes neither the
\* table, the identity cache nor any shadow; for a query whose statement can
\* be lowered and whose limit is unset or at least 1, it returns the number of
\* stored rows that satisfy every condition of q, whatever the sort keys and
\* the limit are.
C17_Count ==
    [][ret'.op = "count" /\ ops' = ops + 1 =>
          /\ UNCHANGED <<store, heap, cache, held>>
          /\ Lowers(ret'.arg)
                /\ (ret'.arg.limit_clause = None \/ ret'.arg.limit_clause.v >= 1) =>
                /\ ret'.exc = ""
                /\ ret'.val = PyInt(Cardinality(Matching(ret'.arg, store)))]_vars

\* a count of 2 for a query limited to one row, whose iteration yields one
\* record
C17_Witness ==
    /\ ret.op = "count" /\ ret.exc = ""
    /\ ret.arg.limit_clause = PyInt(1)
    /\ ret.arg.conditions # <<>>
    /\ ret.val = PyInt(2)
    /\ ResultSize(ret.arg, store) = 1

----------------------------------------------------------------------------
(* C18 *)

\* C18: delete.  A delete of an instance removes the row of its key and no
\* other row, and leaves the identity cache, the references held and every
\* shadow as they were; once the row is gone a load of the key raises
\* DoesNotExist, a read of a field already in the shadow returns the shadow
\* value without a statement, and a construction for the key returns the
\* cached instance.
C18_DeleteKeepsInstance ==
    [][/\ ret'.op = "delete" /\ ops' = ops + 1 =>
              /\ ret'.exc = ""
              /\ store' = [store EXCEPT ![KeyOf(heap, ret'.obj)] = NoRow]
              /\ store[KeyOf(heap, ret'.obj)] # NoRow =>
                    Cardinality(RowKeys(store')) = Cardinality(RowKeys(store)) - 1
              /\ UNCHANGED <<heap, cache, held>>
              /\ cache[KeyOf(heap, ret'.obj)] = ret'.obj
       /\ ret'.op = "load" /\ ops' = ops + 1
              /\ store[KeyOf(heap, ret'.obj)] = NoRow =>
              /\ ret'.exc = "DoesNotExist"
              /\ UNCHANGED <<store, heap, cache>>
       /\ ret'.op = "get" /\ ops' = ops + 1
              /\ store[KeyOf(heap, ret'.obj)] = NoRow
              /\ FieldName(ret'.attr) \in DOMAIN heap[ret'.obj] =>
              /\ ret'.exc = "" /\ ret'.stmts = <<>>
              /\ store' = store
              /\ LET raw == heap[ret'.obj][FieldName(ret'.attr)]
                 IN  IF type_object(ret'.attr) = "Taxon" /\ raw # SqlNull
                     THEN KeyOf(heap', ret'.val.v) = raw.v
                     ELSE /\ ret'.val = DeserializeScalar(ret'.attr, raw)
                          /\ UNCHANGED <<heap, cache>>
       /\ ret'.op = "construct" /\ ops' = ops + 1 /\ ret'.exc = ""
              /\ cache[KeyOf(heap', ret'.obj)] # 0 =>
              /\ ret'.obj = cache[KeyOf(heap', ret'.obj)]
              /\ cache' = cache]_vars

\* a field loaded before the delete is read after it, without a statement,
\* on an instance whose row is gone while other rows remain
C18_Witness ==
    /\ ret.op = "get" /\ ret.exc = "" /\ ret.stmts = <<>>
    /\ ret.attr = "name" /\ ret.val = PyStr(AB)
    /\ store[KeyOf(heap, ret.obj)] = NoRow
    /\ RowKeys(store) # {}
    /\ cache[KeyOf(heap, ret.obj)] = ret.obj

----------------------------------------------------------------------------
(* C19 *)

\* the shadow that holds the key k and nothing else
KeyOnly(k) == [c \in {"id"} |-> SqlInt(k)]

\* C19: create returns an unloaded instance.  The instance a successful
\* create returns is the one the identity cache has for the key of the
\* inserted row and its shadow holds the key only, whatever the shadow of an
\* instance cached for that key held before; the first read of a field on an
\* instance whose shadow holds the key only runs one SELECT and returns the
\* value of the row stored under the key.
C19_CreateUnloaded ==
    [][/\ ret'.op = "create" /\ ret'.exc = "" =>
             LET k == NextRowId(store)
             IN  /\ store[k] = NoRow /\ store'[k] # NoRow
                 /\ cache'[k] = ret'.obj
                 /\ cache[k] # 0 => ret'.obj = cache[k]
                 /\ heap'[ret'.obj] = KeyOnly(k)
       /\ (/\ ret'.op = "get" /\ ops' = ops + 1
           /\ heap[ret'.obj] = KeyOnly(KeyOf(heap, ret'.obj))
           /\ store[KeyOf(heap, ret'.obj)] # NoRow) =>
             LET raw == store[KeyOf(heap, ret'.obj)][FieldName(ret'.attr)]
             IN  /\ ret'.exc = ""
                 /\ ret'.stmts = <<Stmt("SELECT", <<>>, FALSE)>>
                 /\ IF type_object(ret'.attr) = "Taxon" /\ raw # SqlNull
                    THEN KeyOf(heap', ret'.val.v) = raw.v
                    ELSE /\ ret'.val = DeserializeScalar(ret'.attr, raw)
                         /\ heap'[ret'.obj] = store[KeyOf(heap, ret'.obj)]
      ]_vars

\* a create was handed the key of a deleted row whose instance an iteration
\* had yielded, loaded, and which is still cached; the new row has another
\* name than the deleted one
C19_Witness ==
    /\ ret.op = "create" /\ ret.exc = ""
    /\ \E i \in DOMAIN iterlog["it1"].yielded :
          /\ iterlog["it1"].yielded[i] = KeyOf(heap, ret.obj)
          /\ iterlog["it1"].at[KeyOf(heap, ret.obj)]["name"]
                # store[KeyOf(heap, ret.obj)]["name"]
    /\ heap[ret.obj] = KeyOnly(KeyOf(heap, ret.obj))

----------------------------------------------------------------------------
(* C20 *)

\* the record type or scalar type the declaration d of a field of T names
Target(T, d) == IF d.kind = "self" THEN T ELSE d.ref

\* the reverse relation of field f cannot be installed: its target is no
\* record type, or has an attribute or another reverse relation of that name
Clashes(decl, f) ==
    LET d == decl[f[1]][f[2]]
        R == Target(f[1], d)
    IN  /\ d.related_name # ""
        /\ \/ R \notin Types
           \/ d.related_name \in ModelAttrs
           \/ \E i \in DOMAIN decl[R] : decl[R][i].name = d.related_name
           \/ \E g \in FieldIds(decl) \ {f} :
                 /\ decl[g[1]][g[2]].related_name = d.related_name
                 /\ Target(g[1], decl[g[1]][g[2]]) = R

\* every field of a registered record type whose type is known is resolved
\* to it, with its reverse relation installed on it; every other field is
\* unresolved; the pending set holds the record types with such a field
Settled(sch) ==
    /\ \A f \in FieldIds(sch.decl) : f[1] \in sch.models =>
          LET d == sch.decl[f[1]][f[2]]
              R == Target(f[1], d)
          IN  IF R \in Types \ sch.models
              THEN sch.resolved[f] = Unresolved
              ELSE /\ sch.resolved[f] # Unresolved
                   /\ sch.resolved[f].type = R
                   /\ sch.resolved[f].allow_none = d.optional
                   /\ d.related_name # "" =>
                         /\ [name |-> d.related_name, field |-> f] \in sch.attrs[R]
                         /\ \E i \in DOMAIN sch.backrefs[R] : sch.backrefs[R][i] = f
    /\ sch.unresolved =
          {T \in sch.models :
              \E i \in DOMAIN sch.decl[T] :
                  Target(T, sch.decl[T][i]) \in Types \ sch.models}

\* C20: deferred resolution.  The class statement of a record type never
\* raises UnresolvedType, and raises nothing when no reverse relation of the
\* schema clashes and no field has an unsupported type; as long as no class
\* statement has raised, in whatever order the record types were declared,
\* every field naming a record type declared by then is
\* resolved to it with its reverse relation installed, and the pending set
\* holds exactly the record types with a field naming a record type not
\* declared yet.
C20_DeferredResolution ==
    /\ ret.op = "register" =>
          /\ ret.exc \in {"", "TypeError"}
          /\ ret.exc = "TypeError" =>
                \E f \in FieldIds(schema.decl) :
                    \/ Clashes(schema.decl, f)
                    \/ schema.decl[f[1]][f[2]].kind = "unsupported"
    /\ schema.failed = {} => Settled(schema)

\* Of record types that name each other, Name was declared first and stayed
\* pending; the declaration of Taxon resolved Name.taxon and installed
\* "names" on Taxon and "taxa" on Name, and Name stays pending for Zed
C20_Witness ==
    /\ ret.op = "register" /\ ret.arg = "Taxon" /\ ret.exc = ""
    /\ schema.models = {"Name", "Taxon"}
    /\ schema.unresolved = {"Name"}
    /\ schema.resolved[<<"Name", 1>>] # Unresolved
    /\ schema.resolved[<<"Name", 1>>].type = "Taxon"
    /\ schema.resolved[<<"Name", 2>>] = Unresolved
    /\ \E a \in schema.attrs["Taxon"] : a.name = "names"
    /\ \E a \in schema.attrs["Name"] : a.name = "taxa"

----------------------------------------------------------------------------
(* C21 *)

\* how many times x occurs in the sequence s
Occurrences(s, x) == Cardinality({i \in DOMAIN s : s[i] = x})

\* the field a read of the resolved type was made of
FieldRead(sch, T, name) ==
    CHOOSE f \in FieldIds(sch.decl) : f[1] = T /\ sch.decl[T][f[2]].name = name

\* C21: type resolution is idempotent.  Once a field has its triple, no step
\* changes the triple, nor the reverse relations and back references that
\* name the field, of which there is at most one each; a read of the field's
\* type returns the triple without an exception; and a class statement that
\* raises TypeError raises it for a field that had no triple before.
C21_ResolveOnce ==
    [][/\ \A f \in FieldIds(schema.decl) : schema.resolved[f] # Unresolved =>
             /\ schema'.resolved[f] = schema.resolved[f]
             /\ \A R \in Types :
                   /\ Occurrences(schema'.backrefs[R], f)
                          = Occurrences(schema.backrefs[R], f)
                   /\ Occurrences(schema.backrefs[R], f) <= 1
                   /\ {a \in schema'.attrs[R] : a.field = f}
                          = {a \in schema.attrs[R] : a.field = f}
       /\ ret'.op \in Sites /\ ops' = ops + 1 =>
             LET f == FieldRead(schema, ret'.arg, ret'.attr)
             IN  schema.resolved[f] # Unresolved =>
                    /\ ret'.exc = ""
                    /\ ret'.val = schema.resolved[f]
                    /\ schema' = schema
       /\ ret'.op = "register" /\ ops' = ops + 1 /\ ret'.exc = "TypeError" =>
             \E f \in FieldIds(schema.decl) :
                 /\ schema.resolved[f] = Unresolved
                 /\ \/ Clashes(schema.decl, f)
                    \/ schema.decl[f[1]][f[2]].kind = "unsupported"
      ]_vars

\* Name.taxon was resolved, and "names" installed on Taxon, when Taxon was
\* declared; Name stayed pending for Zed, and the declaration of Zed retried
\* Name: the triple and the one back reference are as they were
C21_Witness ==
    /\ ret.op = "register" /\ ret.arg = "Zed" /\ ret.exc = ""
    /\ schema.models = Types /\ schema.unresolved = {}
    /\ <<"Name", 2>> \in FieldIds(schema.decl)
    /\ schema.resolved[<<"Name", 1>>] # Unresolved
    /\ schema.resolved[<<"Name", 1>>].type = "Taxon"
    /\ schema.resolved[<<"Name", 2>>] # Unresolved
    /\ schema.resolved[<<"Name", 2>>].type = "Zed"
    /\ Occurrences(schema.backrefs["Taxon"], <<"Name", 1>>) = 1

----------------------------------------------------------------------------
(* C22 *)

\* the record types with a field of an unsupported type
Unsupported(decl) ==
    {T \in Types : \E i \in DOMAIN decl[T] : decl[T][i].kind = "unsupported"}

\* C22: an unsupported-type error is raised once and not retried.  In a
\* schema without clashing reverse relations, once the class statement of a
\* record type with a field of an unsupported type has raised, the class
\* statement of a record type whose fields all have supported types raises
\* nothing.
C22_UnsupportedRaisedOnce ==
    [][(/\ ret'.op = "register" /\ ops' = ops + 1
        /\ schema.failed \cap Unsupported(schema.decl) # {}
        /\ ret'.arg \notin Unsupported(schema.decl)
        /\ ~\E f \in FieldIds(schema.decl) : Clashes(schema.decl, f)) =>
           ret'.exc = ""]_vars

----------------------------------------------------------------------------
(* C23 *)

\* the record types with a field that has no triple
WithUnresolvedField(sch) ==
    {T \in Types : \E i \in DOMAIN sch.decl[T] : sch.resolved[<<T, i>>] = Unresolved}

\* C23: the pending set.  After a class statement that raised nothing, the
\* pending set holds registered record types only, and every registered
\* record type with a field that has no triple is in it, so that every
\* registered record type outside it has all its fields resolved.
C23_PendingSet ==
    ret.op = "register" /\ ret.exc = "" =>
        /\ schema.unresolved \subseteq schema.models
        /\ WithUnresolvedField(schema) \cap schema.models \subseteq schema.unresolved
        /\ \A T \in schema.models \ schema.unresolved :
              \A i \in DOMAIN schema.decl[T] : schema.resolved[<<T, i>>] # Unresolved

\* a class statement raised nothing and left one record type pending, with
\* one field resolved and another not, and another record type outside the
\* pending set
C23_Witness ==
    /\ ret.op = "register" /\ ret.exc = ""
    /\ schema.models \ schema.unresolved # {}
    /\ \E T \in schema.unresolved :
          \E i, j \in DOMAIN schema.decl[T] :
              /\ schema.resolved[<<T, i>>] # Unresolved
              /\ schema.resolved[<<T, j>>] = Unresolved

====
